---- MODULE Spec2Model ----
(***************************************************************************)
(* The segmented sample store of Ennuizel (audio-data.ts): an AudioTrack   *)
(* is a tree of AudioData nodes, each holding up to one buffer of samples, *)
(* compressed at rest and decompressed on demand (openRaw / closeRaw).     *)
(*                                                                         *)
(* Conventions.  0 is JavaScript's null for node references.  Sequences    *)
(* are 1-based, typed arrays 0-based: element i of a typed array is        *)
(* element i+1 of the sequence modelling it.  One sample is one natural    *)
(* number; the track is mono at 1 Hz, so a time in seconds is an offset in *)
(* samples (Math.floor(t * sampleRate) * channels = t).                    *)
(***************************************************************************)
EXTENDS Integers, Sequences, FiniteSets, TLC

\* ------------------------------------------------------------------ bounds
\* Number of AudioData ids id36.genFresh can hand out.
MaxNodes == 7
\* Samples one raw buffer holds (channels * sampleRate * 30 in initRaw),
\* scaled down so that frames overflow a segment.
Capacity == 2
\* Largest frame (in samples) a source stream delivers.
MaxFrame == 3
\* Samples the source streams deliver in total.
MaxSamples == 4
\* Editing operations (append, overwrite, replace) started in one behaviour.
MaxOps == 3
\* Nodes of the arbitrary trees given to rebalance, and their largest len.
MaxTreeNodes == 4
MaxLen == 1
\* SpecCache: the callers of one cache entry, and their openRaw calls in all.
MaxCallers == 3
MaxOpens == 4
\* SpecReads: the nodes of the stored track, and the largest start or end.
MaxParts == 2
MaxPos == 3
\* SpecPass: the most earlier readers that hold a segment open.
MaxHeld == 2
\* SpecFilter: the selected tracks, and the largest worker budget.
MaxTracks == 4
MaxThreads == 3

Ids == 1 .. MaxNodes

\* ------------------------------------------------------------------- state
VARIABLES
    nd,         \* AudioData objects by id: tree links, pos, len, cache entry
    root,       \* AudioTrack.root of each track (0: null)
    store,      \* the key-value store
    nextId,     \* next id genFresh returns
    nextSample, \* next sample value a source stream delivers
    ops,        \* editing operations started so far
    pc,         \* position of the running operation ("idle": none)
    loc,        \* local variables of the running operation
    rs,         \* the ReadableStream made by AudioTrack.stream()
    gh          \* history variables the properties are stated with

vars == <<nd, root, store, nextId, nextSample, ops, pc, loc, rs, gh>>

\* The track being edited and the track that holds replacement data.
Tracks == {1, 2}

\* AudioData constructor: every field as the constructor leaves it.
NewAudioData ==
    [pos |-> 0, len |-> 0, hasRaw |-> FALSE, raw |-> <<>>,
     rawPromise |-> FALSE, rawModified |-> FALSE, readers |-> 0,
     parent |-> 0, left |-> 0, right |-> 0]

\* ------------------------------------------------------------ tree (pure)
RECURSIVE fillArray(_, _)
\* In-order list of the subtree rooted at n.
fillArray(N, n) ==
    IF n = 0 THEN <<>>
    ELSE fillArray(N, N[n].left) \o <<n>> \o fillArray(N, N[n].right)

RECURSIVE subtreeDurationNoPos(_, _)
\* subtreeDuration as it would be if pos were left out of the sum.
subtreeDurationNoPos(N, n) ==
    IF n = 0 THEN 0
    ELSE N[n].len + subtreeDurationNoPos(N, N[n].right)

RECURSIVE subtreeDuration(_, _)
\* pos + len summed along the right spine.
subtreeDuration(N, n) ==
    IF n = 0 THEN 0
    ELSE N[n].pos + N[n].len + subtreeDuration(N, N[n].right)

RECURSIVE balanceArrayDrop(_, _)
\* balanceArray as it would be if the right half began one node late.
balanceArrayDrop(N, arr) ==
    IF Len(arr) = 0 THEN [N |-> N, root |-> 0]
    ELSE LET mid == Len(arr) \div 2
             r   == arr[mid + 1]
             N1  == [N EXCEPT ![r].parent = 0]
             L   == balanceArrayDrop(N1, SubSeq(arr, 1, mid))
             N2  == [L.N EXCEPT ![r].left = L.root]
             N3  == IF L.root # 0 THEN [N2 EXCEPT ![L.root].parent = r] ELSE N2
             N4  == [N3 EXCEPT ![r].pos =
                        IF L.root # 0 THEN subtreeDuration(N3, L.root) ELSE 0]
             R   == balanceArrayDrop(N4, SubSeq(arr, mid + 3, Len(arr)))
             N5  == [R.N EXCEPT ![r].right = R.root]
             N6  == IF R.root # 0 THEN [N5 EXCEPT ![R.root].parent = r] ELSE N5
         IN  [N |-> N6, root |-> r]

RECURSIVE balanceArraySkew(_, _)
\* balanceArray as it would be if the first node were taken as the root.
balanceArraySkew(N, arr) ==
    IF Len(arr) = 0 THEN [N |-> N, root |-> 0]
    ELSE LET r   == arr[1]
             N1  == [N EXCEPT ![r].parent = 0, ![r].left = 0, ![r].pos = 0]
             R   == balanceArraySkew(N1, SubSeq(arr, 2, Len(arr)))
             N5  == [R.N EXCEPT ![r].right = R.root]
             N6  == IF R.root # 0 THEN [N5 EXCEPT ![R.root].parent = r] ELSE N5
         IN  [N |-> N6, root |-> r]

RECURSIVE balanceArray(_, _)
\* Median split; returns the updated objects and the new root.
balanceArray(N, arr) ==
    IF Len(arr) = 0 THEN [N |-> N, root |-> 0]
    ELSE LET mid == Len(arr) \div 2
             r   == arr[mid + 1]
             N1  == [N EXCEPT ![r].parent = 0]
             L   == balanceArray(N1, SubSeq(arr, 1, mid))
             N2  == [L.N EXCEPT ![r].left = L.root]
             N3  == IF L.root # 0 THEN [N2 EXCEPT ![L.root].parent = r] ELSE N2
             N4  == [N3 EXCEPT ![r].pos =
                        IF L.root # 0 THEN subtreeDuration(N3, L.root) ELSE 0]
             R   == balanceArray(N4, SubSeq(arr, mid + 2, Len(arr)))
             N5  == [R.N EXCEPT ![r].right = R.root]
             N6  == IF R.root # 0 THEN [N5 EXCEPT ![R.root].parent = r] ELSE N5
         IN  [N |-> N6, root |-> r]

\* rebalance(): flatten, then rebuild.
rebalance(N, n) == balanceArray(N, fillArray(N, n))

RECURSIVE findFromStrict(_, _, _, _)
\* findFrom as it would be with < for the first comparison.
findFromStrict(N, cur, offset, sample) ==
    IF cur = 0 THEN [found |-> FALSE, node |-> 0, offset |-> 0]
    ELSE IF N[cur].pos + offset < sample
         THEN IF N[cur].pos + offset + N[cur].len > sample
              THEN [found |-> TRUE, node |-> cur,
                    offset |-> sample - offset - N[cur].pos]
              ELSE findFromStrict(N, N[cur].right,
                                  offset + N[cur].pos + N[cur].len, sample)
         ELSE findFromStrict(N, N[cur].left, offset, sample)

RECURSIVE findFrom(_, _, _, _)
\* The loop of find, from node cur with running offset.
findFrom(N, cur, offset, sample) ==
    IF cur = 0 THEN [found |-> FALSE, node |-> 0, offset |-> 0]
    ELSE IF N[cur].pos + offset <= sample
         THEN IF N[cur].pos + offset + N[cur].len > sample
              THEN [found |-> TRUE, node |-> cur,
                    offset |-> sample - offset - N[cur].pos]
              ELSE findFrom(N, N[cur].right,
                            offset + N[cur].pos + N[cur].len, sample)
         ELSE findFrom(N, N[cur].left, offset, sample)

find(N, n, sample) == findFrom(N, n, 0, sample)

RECURSIVE leftmost(_, _)
\* while (cur.left) cur = cur.left
leftmost(N, cur) == IF N[cur].left # 0 THEN leftmost(N, N[cur].left) ELSE cur

\* The end-of-track fallback without the walk down the right edge.
rightmostStay(N, cur) == cur

RECURSIVE rightmost(_, _)
\* while (cur.right) cur = cur.right
rightmost(N, cur) == IF N[cur].right # 0 THEN rightmost(N, N[cur].right) ELSE cur

\* The way up as it would be if it stopped at the first parent.
climbOnce(N, cur) == N[cur].parent

RECURSIVE climb(_, _)
\* Up the parent links until arriving over a left edge; 0 at the root.
climb(N, cur) ==
    LET next == N[cur].parent
    IN  IF next = 0 THEN 0
        ELSE IF N[next].left = cur THEN next
        ELSE climb(N, next)

\* The successor walk of stream()'s pull; 0: end of tree.
successor(N, cur) ==
    IF N[cur].right # 0 THEN leftmost(N, N[cur].right) ELSE climb(N, cur)

\* The sum of a sequence of numbers.
RECURSIVE sum(_)
sum(q) == IF q = <<>> THEN 0 ELSE Head(q) + sum(Tail(q))

\* ----------------------------------------------------------- typed arrays
\* new TypedArray(n): n zeroes.
zeros(n) == [i \in 1 .. n |-> 0]

\* a.subarray(lo, hi) and a.slice(lo, hi), with 0-based bounds lo <= hi.
subarray(a, lo, hi) == SubSeq(a, lo + 1, hi)

\* set() as it would be if the offset were ignored.
setArrayAtZero(a, src, offset) ==
    [i \in 1 .. Len(a) |-> IF i <= Len(src) THEN src[i] ELSE a[i]]

\* a.set(src, offset): src copied over a from index offset on.
setArray(a, src, offset) ==
    [i \in 1 .. Len(a) |->
        IF i > offset /\ i <= offset + Len(src) THEN src[i - offset] ELSE a[i]]

\* ------------------------------------------------------------------ store
\* The codec collaborator: wavpack is lossless, so decoding what was encoded
\* gives the encoded samples back; the encoded form is a different value.
encode(samples) == [wavpack |-> samples]
decode(blob) == blob.wavpack

\* The keys of the store: "audio-data-" + id (value {len}),
\* "audio-data-compressed-" + id, "audio-data-wave-" + id and
\* "audio-track-" + id (value: the ids of the track's nodes, in order).
EmptyStore ==
    [dataKeys |-> {}, dataLen |-> [i \in Ids |-> 0],
     wvKeys |-> {}, wv |-> [i \in Ids |-> encode(<<>>)],
     waveKeys |-> {},
     trackKeys |-> {}, trackData |-> [t \in Tracks |-> <<>>]]

\* save as it would be if the stored value kept the len it had.
saveKeyOnly(N, S, n) == [S EXCEPT !.dataKeys = @ \cup {n}]

\* AudioData.save: store.setItem("audio-data-" + id, {len}).
save(N, S, n) ==
    [S EXCEPT !.dataKeys = @ \cup {n}, !.dataLen[n] = N[n].len]

\* AudioData.wavpack: the valid region, encoded, under audio-data-compressed-.
wavpack(N, S, n) ==
    [S EXCEPT !.wvKeys = @ \cup {n},
              !.wv[n] = encode(subarray(N[n].raw, 0, N[n].len))]

\* AudioData.render: the waveform image under audio-data-wave-.
render(N, S, n) == [S EXCEPT !.waveKeys = @ \cup {n}]

\* AudioData.compress: nothing at all for an empty node.
compress(N, S, n) ==
    IF N[n].len # 0 THEN render(N, wavpack(N, S, n), n) ELSE S

\* AudioData.del, the store part: the metadata and the waveform are removed.
delStore(S, n) ==
    [S EXCEPT !.dataKeys = @ \ {n}, !.waveKeys = @ \ {n}]

\* ------------------------------------------------------ cache entry steps
\* del() sets readers to Infinity; Infinity + 1 = Infinity - 1 = Infinity.
Infinity == 1000
\* inc as it would be if an open counted twice.
incTwice(r) == IF r = Infinity THEN Infinity ELSE r + 2

inc(r) == IF r = Infinity THEN Infinity ELSE r + 1
dec(r) == IF r = Infinity THEN Infinity ELSE r - 1

\* openRaw up to its first suspension: count the reader, then pick the path.
\* "hit": the buffer is resident; "wait": a decompression is in flight;
\* "load": this caller starts the decompression.
openRawPath(x) ==
    IF x.hasRaw THEN "hit" ELSE IF x.rawPromise THEN "wait" ELSE "load"

\* openRawBegin as it would be if the load path did not set rawPromise.
openRawBeginNoPromise(x) == [x EXCEPT !.readers = inc(x.readers)]

openRawBegin(x) ==
    LET y == [x EXCEPT !.readers = inc(x.readers)]
    IN  IF openRawPath(x) = "load" THEN [y EXCEPT !.rawPromise = TRUE] ELSE y

\* openRaw's end on the load path: the decoded frames merged into one new
\* buffer, the promise resolved and cleared.
openRawEnd(x, blob) ==
    [x EXCEPT !.hasRaw = TRUE, !.raw = decode(blob), !.rawPromise = FALSE]

\* initRaw as it would be with a buffer one sample larger than a segment.
initRawWide(x) ==
    openRawBegin([x EXCEPT !.hasRaw = TRUE, !.raw = zeros(Capacity + 1)])

\* initRaw: a fresh over-sized buffer, opened through openRaw (a hit).
initRaw(x) ==
    openRawBegin([x EXCEPT !.hasRaw = TRUE, !.raw = zeros(Capacity)])

\* closeRawBegin as it would be if the reader were not counted out.
closeRawBeginUncounted(x, modified) ==
    [x EXCEPT !.rawModified = x.rawModified \/ modified]

\* closeRaw up to its first suspension.
closeRawBegin(x, modified) ==
    LET m == x.rawModified \/ modified
        r == dec(x.readers)
    IN  IF r <= 0 THEN [x EXCEPT !.rawModified = m, !.readers = 0]
        ELSE [x EXCEPT !.rawModified = m, !.readers = r]

\* Did this closeRaw take the count to zero (the last closer)?
closeRawLast(x) == dec(x.readers) <= 0

\* closeRaw's end: the buffer is dropped and the flag cleared.
closeRawEnd(x) == [x EXCEPT !.hasRaw = FALSE, !.raw = <<>>, !.rawModified = FALSE]

\* ------------------------------------- cache entry, run without interleaving
\* A world is the pair the operations change: [nd, store].  These run one
\* call from its start to its return, as happens when no other task touches
\* the node meanwhile.

\* await openRaw(): ret is "buf" (the node's raw buffer is returned),
\* "undefined" (no compressed bytes: the bare return) or "hang" (the call
\* awaits a promise that is never resolved).
openRaw(W, n) ==
    LET x    == W.nd[n]
        path == openRawPath(x)
        y    == openRawBegin(x)
    IN  CASE path = "hit"  -> [nd |-> [W.nd EXCEPT ![n] = y], store |-> W.store,
                                ret |-> "buf"]
          [] path = "wait" -> [nd |-> [W.nd EXCEPT ![n] = y], store |-> W.store,
                                ret |-> "hang"]
          [] path = "load" ->
                IF n \in W.store.wvKeys
                THEN [nd |-> [W.nd EXCEPT ![n] = openRawEnd(y, W.store.wv[n])],
                      store |-> W.store, ret |-> "buf"]
                ELSE [nd |-> [W.nd EXCEPT ![n] = y], store |-> W.store,
                      ret |-> "undefined"]

\* await closeRaw(modified).
closeRaw(W, n, modified) ==
    LET x  == W.nd[n]
        y  == closeRawBegin(x, modified)
        N1 == [W.nd EXCEPT ![n] = y]
    IN  IF closeRawLast(x)
        THEN LET S1 == IF y.rawModified
                       THEN save(N1, compress(N1, W.store, n), n)
                       ELSE W.store
             IN  [nd |-> [N1 EXCEPT ![n] = closeRawEnd(y)], store |-> S1]
        ELSE [nd |-> N1, store |-> W.store]


\* ------------------------------------------------------- source streams
\* An EZStream over a source of frames: read() gives the frame pushed back
\* last if there is one, else the source's next frame, else null for good.
\* The source's frames are not fixed in advance: each is any number of
\* samples from 1 to MaxFrame, and the samples are numbered as delivered.
\* A read is [null, chunk, pushed, ended, ns, fresh]: the result and the
\* stream afterwards (fresh: the chunk came from the source just now).
frameFrom(ns, k) == [i \in 1 .. k |-> ns + i - 1]

reads(pushed, ended, ns) ==
    IF pushed # <<>>
    THEN {[null |-> FALSE, chunk |-> Head(pushed), pushed |-> Tail(pushed),
           ended |-> ended, ns |-> ns, fresh |-> FALSE]}
    ELSE {[null |-> TRUE, chunk |-> <<>>, pushed |-> <<>>, ended |-> TRUE,
           ns |-> ns, fresh |-> FALSE]}
         \cup
         IF ended THEN {}
         ELSE {[null |-> FALSE, chunk |-> frameFrom(ns, k), pushed |-> <<>>,
                ended |-> FALSE, ns |-> ns + k, fresh |-> TRUE] :
               k \in {j \in 1 .. MaxFrame : ns + j - 1 <= MaxSamples}}

\* The same with frames of no samples among those the source may deliver.
readsZero(pushed, ended, ns) ==
    reads(pushed, ended, ns)
    \cup
    IF pushed # <<>> \/ ended THEN {}
    ELSE {[null |-> FALSE, chunk |-> <<>>, pushed |-> <<>>,
           ended |-> FALSE, ns |-> ns, fresh |-> TRUE]}

\* ----------------------------------------------------------------- history
\* What the properties compare the program with: model[t] is the sample
\* sequence track t should hold,
\* edited[t] whether overwrite or replace ever ran on it, pre the track as
\* it was when the running operation started (preR: the replacement track), out the samples the last
\* stream() reader received, done the locals of the operation that returned
\* last (none while one is running).
NoPre == [ids |-> <<>>, lens |-> <<>>, samples |-> <<>>, count |-> 0]

InitHistory ==
    [model |-> [t \in Tracks |-> <<>>],
     edited |-> [t \in Tracks |-> FALSE], pre |-> NoPre, preR |-> NoPre,
     out |-> <<>>,
     done |-> [op |-> "none"]]

RECURSIVE concatAll(_)
concatAll(ss) == IF ss = <<>> THEN <<>> ELSE Head(ss) \o concatAll(Tail(ss))

\* What openRaw would hand to a reader of node n: the resident buffer, else
\* the decoded compressed bytes, else nothing.
nodeBuffer(N, S, n) ==
    IF N[n].hasRaw THEN N[n].raw
    ELSE IF n \in S.wvKeys THEN decode(S.wv[n]) ELSE <<>>

\* The samples node n holds: the first len of that buffer.
nodeSamples(N, S, n) ==
    LET buf == nodeBuffer(N, S, n)
    IN  subarray(buf, 0, IF N[n].len <= Len(buf) THEN N[n].len ELSE Len(buf))

\* The track's samples in order, as its nodes hold them.
trackSamples(N, S, r) ==
    LET arr == fillArray(N, r)
    IN  concatAll([i \in 1 .. Len(arr) |-> nodeSamples(N, S, arr[i])])

lensOf(N, arr) == [i \in 1 .. Len(arr) |-> N[arr[i]].len]

snapshot(N, S, r) ==
    [ids |-> fillArray(N, r), lens |-> lensOf(N, fillArray(N, r)),
     samples |-> trackSamples(N, S, r), count |-> subtreeDuration(N, r)]

\* ----------------------------------------------------------------- initial
NoStream == [st |-> "none"]
NoLocals == [op |-> "none"]

Init ==
    /\ nd = [i \in Ids |-> NewAudioData]
    /\ root = [t \in Tracks |-> 0]
    /\ store = EmptyStore
    /\ nextId = 1
    /\ nextSample = 1
    /\ ops = 0
    /\ pc = "idle"
    /\ loc = NoLocals
    /\ rs = NoStream
    /\ gh = InitHistory

\* saveTrack as it would be if the record kept the ids it had.
saveTrackKeyOnly(S, t, data) == [S EXCEPT !.trackKeys = @ \cup {t}]

\* AudioTrack.save: the track record is written.
saveTrack(S, t, data) ==
    [S EXCEPT !.trackKeys = @ \cup {t}, !.trackData[t] = data]

\* ------------------------------------------------------- AudioTrack.append
\* append(rstream) is called on track t.
AppendStart(t) ==
    /\ pc = "idle"
    /\ ops < MaxOps
    /\ ops' = ops + 1
    /\ pc' = "a_first"
    /\ loc' = [op |-> "append", t |-> t, cur |-> 0, chunk |-> <<>>,
               pushed |-> <<>>, ended |-> FALSE, data |-> <<>>]
    /\ gh' = [gh EXCEPT !.pre = snapshot(nd, store, root[t]),
                        !.done = NoLocals, !.out = <<>>]
    /\ UNCHANGED <<nd, root, store, nextId, nextSample, rs>>

\* The first frame is read and pushed back (by append, then by resample, which
\* passes frames of the track's format through unchanged).
appendFirst(rd) ==
    /\ pc = "a_first"
    /\ \E r \in rd :
        /\ loc' = [loc EXCEPT !.pushed = IF r.null THEN r.pushed
                                         ELSE <<r.chunk>> \o r.pushed,
                              !.ended = r.ended]
        /\ nextSample' = r.ns
        /\ gh' = IF r.fresh THEN [gh EXCEPT !.model[loc.t] = @ \o r.chunk] ELSE gh
    /\ pc' = "a_read"
    /\ UNCHANGED <<nd, root, store, nextId, rs, ops>>

AppendFirst == appendFirst(reads(loc.pushed, loc.ended, nextSample))

\* appendNode as it would be if the new node were hung to the left of the
\* leftmost node.
appendNodeFirst(N, r, id) ==
    LET N1 == IF r = 0 THEN N
              ELSE [N EXCEPT ![leftmost(N, r)].left = id,
                             ![id].parent = leftmost(N, r)]
    IN  [N1 EXCEPT ![id] = initRaw(N1[id])]

\* The new node of append: the root of an empty tree, else the right child of
\* the rightmost node; its buffer is allocated and opened.
appendNode(N, r, id) ==
    LET N1 == IF r = 0 THEN N
              ELSE [N EXCEPT ![rightmost(N, r)].right = id,
                             ![id].parent = rightmost(N, r)]
    IN  [N1 EXCEPT ![id] = initRaw(N1[id])]

\* appendFill as it would be if the part of the chunk that does not fit were
\* not pushed back.
appendFillNoRest(N, cur, chunk) ==
    LET x         == N[cur]
        remaining == Len(x.raw) - x.len
    IN  IF remaining >= Len(chunk)
        THEN [nd |-> [N EXCEPT ![cur].raw = setArray(x.raw, chunk, x.len),
                               ![cur].len = x.len + Len(chunk)],
              full |-> FALSE, rest |-> <<>>]
        ELSE [nd |-> [N EXCEPT ![cur].raw =
                                  setArray(x.raw, subarray(chunk, 0, remaining), x.len),
                               ![cur].len = Len(x.raw)],
              full |-> TRUE, rest |-> <<>>]

\* The body of append's loop after the node exists: the chunk is copied in
\* whole, or the part that fits.  [nd, full, rest]
appendFill(N, cur, chunk) ==
    LET x         == N[cur]
        remaining == Len(x.raw) - x.len
    IN  IF remaining >= Len(chunk)
        THEN [nd |-> [N EXCEPT ![cur].raw = setArray(x.raw, chunk, x.len),
                               ![cur].len = x.len + Len(chunk)],
              full |-> FALSE, rest |-> <<>>]
        ELSE [nd |-> [N EXCEPT ![cur].raw =
                                  setArray(x.raw, subarray(chunk, 0, remaining), x.len),
                               ![cur].len = Len(x.raw)],
              full |-> TRUE,
              rest |-> IF Len(chunk) # remaining
                       THEN <<subarray(chunk, remaining, Len(chunk))>> ELSE <<>>]

\* chunk = await stream.read(), then up to the next suspension.
appendRead(rd) ==
    /\ pc = "a_read"
    /\ \E r \in rd :
        /\ nextSample' = r.ns
        /\ gh' = IF r.fresh THEN [gh EXCEPT !.model[loc.t] = @ \o r.chunk] ELSE gh
        /\ IF r.null
           THEN /\ pc' = "a_last"
                /\ loc' = [loc EXCEPT !.pushed = r.pushed, !.ended = r.ended]
                /\ UNCHANGED <<nd, root, nextId>>
           ELSE IF loc.cur = 0
           THEN /\ nextId <= MaxNodes
                /\ nd' = appendNode(nd, root[loc.t], nextId)
                /\ root' = IF root[loc.t] = 0
                           THEN [root EXCEPT ![loc.t] = nextId] ELSE root
                /\ nextId' = nextId + 1
                /\ loc' = [loc EXCEPT !.pushed = r.pushed, !.ended = r.ended,
                                      !.cur = nextId, !.chunk = r.chunk]
                /\ pc' = "a_node"
           ELSE LET f == appendFill(nd, loc.cur, r.chunk)
                IN  /\ nd' = f.nd
                    /\ loc' = [loc EXCEPT !.pushed = f.rest \o r.pushed,
                                          !.ended = r.ended, !.chunk = r.chunk]
                    /\ pc' = IF f.full THEN "a_close" ELSE "a_read"
                    /\ UNCHANGED <<root, nextId>>
    /\ UNCHANGED <<store, rs, ops>>

AppendRead == appendRead(reads(loc.pushed, loc.ended, nextSample))

\* await cur.save() for the new node, then the chunk is copied in.
AppendNode ==
    /\ pc = "a_node"
    /\ store' = save(nd, store, loc.cur)
    /\ LET f == appendFill(nd, loc.cur, loc.chunk)
       IN  /\ nd' = f.nd
           /\ loc' = [loc EXCEPT !.pushed = f.rest \o loc.pushed]
           /\ pc' = IF f.full THEN "a_close" ELSE "a_read"
    /\ UNCHANGED <<root, nextId, nextSample, rs, gh, ops>>

\* await cur.closeRaw(true) for a full node.
AppendClose ==
    /\ pc = "a_close"
    /\ LET W == closeRaw([nd |-> nd, store |-> store], loc.cur, TRUE)
       IN  nd' = W.nd /\ store' = W.store
    /\ loc' = [loc EXCEPT !.cur = 0]
    /\ pc' = "a_read"
    /\ UNCHANGED <<root, nextId, nextSample, rs, gh, ops>>

\* The stream has ended: the last node is closed.
AppendLast ==
    /\ pc = "a_last"
    /\ IF loc.cur # 0
       THEN LET W == closeRaw([nd |-> nd, store |-> store], loc.cur, TRUE)
            IN  nd' = W.nd /\ store' = W.store
       ELSE UNCHANGED <<nd, store>>
    /\ pc' = "a_rebalance"
    /\ UNCHANGED <<root, nextId, nextSample, loc, rs, gh, ops>>

\* this.root = this.root.rebalance(), and save() lists the nodes.
AppendRebalance ==
    /\ pc = "a_rebalance"
    /\ LET B == IF root[loc.t] # 0 THEN rebalance(nd, root[loc.t])
                ELSE [N |-> nd, root |-> 0]
       IN  /\ nd' = B.N
           /\ root' = [root EXCEPT ![loc.t] = B.root]
           /\ loc' = [loc EXCEPT !.data = fillArray(B.N, B.root)]
    /\ pc' = "a_save"
    /\ UNCHANGED <<store, nextId, nextSample, rs, gh, ops>>

AppendSave ==
    /\ pc = "a_save"
    /\ store' = saveTrack(store, loc.t, loc.data)
    /\ pc' = "idle"
    /\ loc' = NoLocals
    /\ gh' = [gh EXCEPT !.done = loc]
    /\ UNCHANGED <<nd, root, nextId, nextSample, rs, ops>>

\* ------------------------------------------------------ AudioTrack.stream
\* The ReadableStream stream() returns.  st is "starting" until start() has
\* run, then "open"; "closed" once controller.close() was called (the queue
\* may still hold frames); "errored" when start or pull threw; "hung" when
\* it awaits an openRaw that never returns.  A frame is a view
\* [node, lo, hi) of the node's buffer, and data the samples in it when it
\* was enqueued.
streamRec(st, t, keepOpen, cur, offset, remaining) ==
    [st |-> st, t |-> t, keepOpen |-> keepOpen, cur |-> cur,
     offset |-> offset, remaining |-> remaining, queue |-> <<>>]

\* The synchronous part of stream(): times to offsets, then find.  dflt: no
\* end was given, and the end is duration() + 2.
stream(N, r, t, startSec, endSec, dflt, keepOpen) ==
    LET start     == startSec
        end       == IF dflt THEN subtreeDuration(N, r) + 2 ELSE endSec
        remaining == end - start
        sd        == find(N, r, start)
    IN  IF r = 0 \/ ~sd.found
        THEN streamRec("closed", t, keepOpen, 0, 0, remaining)
        ELSE streamRec("starting", t, keepOpen, sd.node, sd.offset, remaining)

\* An index given to subarray, in a buffer of n samples: a negative index
\* counts from the end, and the result is clamped to 0 .. n.
relIndex(k, n) ==
    IF k < 0 THEN (IF n + k < 0 THEN 0 ELSE n + k) ELSE IF k > n THEN n ELSE k

\* The frame of start and pull: buf.subarray(lo), then subarray(0, remaining)
\* when remaining is less than the length.  The end of the view in buf.
streamCut(buf, lo, remaining) ==
    IF remaining < Len(buf) - lo
    THEN lo + relIndex(remaining, Len(buf) - lo)
    ELSE Len(buf)

\* The part start and pull share: open cur, close it again unless keepOpen,
\* cut the buffer to [lo, lo + remaining) and enqueue it.  [nd, store, rs]
streamEmit(W, R, cur, lo) ==
    LET o   == openRaw(W, cur)
        buf == o.nd[cur].raw
        W1  == IF R.keepOpen THEN o ELSE closeRaw(o, cur, FALSE)
        hi  == streamCut(buf, lo, R.remaining)
        fr  == [node |-> cur, lo |-> lo, hi |-> hi, data |-> subarray(buf, lo, hi)]
        rem == R.remaining - (hi - lo)
    IN  IF o.ret = "buf"
        THEN [nd |-> W1.nd, store |-> W1.store,
              rs |-> [R EXCEPT !.cur = cur, !.queue = Append(R.queue, fr),
                               !.remaining = rem,
                               !.st = IF rem <= 0 THEN "closed" ELSE "open"]]
        ELSE [nd |-> o.nd, store |-> o.store,
              rs |-> [R EXCEPT !.cur = cur,
                               !.st = IF o.ret = "hang" THEN "hung" ELSE "errored"]]

\* start(controller): the first part, from the offset find gave.
streamStart(W, R) == streamEmit(W, R, R.cur, R.offset)

\* pull(controller): the next node in order, or the end of the tree.
streamPull(W, R) ==
    LET next == successor(W.nd, R.cur)
    IN  IF next = 0
        THEN [nd |-> W.nd, store |-> W.store, rs |-> [R EXCEPT !.st = "closed"]]
        ELSE streamEmit(W, R, next, 0)

\* The stream's start() runs.
StreamStart ==
    /\ rs.st = "starting"
    /\ LET X == streamStart([nd |-> nd, store |-> store], rs)
       IN  nd' = X.nd /\ store' = X.store /\ rs' = X.rs
    /\ UNCHANGED <<root, nextId, nextSample, pc, loc, gh, ops>>

\* The stream's pull() runs: the queue is below its high-water mark of one
\* frame and the stream is not closed.
StreamPull ==
    /\ rs.st = "open"
    /\ rs.queue = <<>>
    /\ LET X == streamPull([nd |-> nd, store |-> store], rs)
       IN  nd' = X.nd /\ store' = X.store /\ rs' = X.rs
    /\ UNCHANGED <<root, nextId, nextSample, pc, loc, gh, ops>>

\* reader.read() can return: a frame is queued, or the stream is over.
canRead(R) == R.queue # <<>> \/ R.st \in {"closed", "errored"}
readDone(R) == R.queue = <<>> /\ R.st = "closed"
readThrows(R) == R.queue = <<>> /\ R.st = "errored"

\* --------------------------------------------------------- a stream reader
\* A consumer of stream({start, end}) without keepOpen, as playback and the
\* filters are: it reads to the end and keeps the samples it got.
ReadStart(t, a, b, dflt) ==
    /\ pc = "idle"
    /\ rs' = stream(nd, root[t], t, a, b, dflt, FALSE)
    /\ pc' = "s_read"
    /\ loc' = [op |-> "read", t |-> t, start |-> a, end |-> b, dflt |-> dflt]
    /\ gh' = [gh EXCEPT !.out = <<>>, !.pre = snapshot(nd, store, root[t]),
                        !.done = NoLocals]
    /\ UNCHANGED <<nd, root, store, nextId, nextSample, ops>>

ReadChunk ==
    /\ pc = "s_read"
    /\ canRead(rs)
    /\ IF readDone(rs)
       THEN /\ pc' = "idle" /\ loc' = NoLocals /\ rs' = NoStream
            /\ gh' = [gh EXCEPT !.done = loc]
       ELSE IF readThrows(rs)
       THEN pc' = "error" /\ UNCHANGED <<loc, rs, gh>>
       ELSE /\ gh' = [gh EXCEPT !.out = @ \o Head(rs.queue).data]
            /\ rs' = [rs EXCEPT !.queue = Tail(@)]
            /\ UNCHANGED <<pc, loc>>
    /\ UNCHANGED <<nd, root, store, nextId, nextSample, ops>>

\* ---------------------------------------------------- AudioTrack.overwrite
\* overwrite(data, {start, end, closeTwice}) is called on track 1.  The
\* history keeps the new samples the data stream delivers in gh.out.
OverwriteStart(a, b, closeTwice) ==
    /\ pc = "idle"
    /\ ops < MaxOps
    /\ ops' = ops + 1
    /\ pc' = "o_resample"
    /\ loc' = [op |-> "overwrite", t |-> 1, start |-> a, end |-> b,
               closeTwice |-> closeTwice,
               curOutNode |-> 0, outLo |-> 0, curOutPos |-> 0, curOutRem |-> 0,
               hasIn |-> FALSE, curInRaw |-> <<>>, curInPos |-> 0, curInRem |-> 0,
               pushed |-> <<>>, ended |-> FALSE]
    /\ gh' = [gh EXCEPT !.edited[1] = TRUE, !.out = <<>>, !.done = NoLocals,
                        !.pre = snapshot(nd, store, root[1])]
    /\ UNCHANGED <<nd, root, store, nextId, nextSample, rs>>

\* resample reads the first frame of the data and pushes it back; then the
\* target range is opened as a keepOpen stream.
OverwriteResample ==
    /\ pc = "o_resample"
    /\ \E r \in reads(loc.pushed, loc.ended, nextSample) :
        /\ loc' = [loc EXCEPT !.pushed = IF r.null THEN r.pushed
                                         ELSE <<r.chunk>> \o r.pushed,
                              !.ended = r.ended]
        /\ nextSample' = r.ns
        /\ gh' = IF r.fresh THEN [gh EXCEPT !.out = @ \o r.chunk] ELSE gh
    /\ rs' = stream(nd, root[1], 1, loc.start, loc.end, FALSE, TRUE)
    /\ pc' = "o_out"
    /\ UNCHANGED <<nd, root, store, nextId, ops>>

\* overwriteTransfer as it would be if the end of the written extent became
\* the node's len.
overwriteTransferLen(N, l) ==
    LET node == l.curOutNode
        at   == l.outLo + l.curOutPos
    IN  IF l.curInRem >= l.curOutRem
        THEN [nd |-> [N EXCEPT ![node].raw =
                         setArray(@, subarray(l.curInRaw, l.curInPos,
                                              l.curInPos + l.curOutRem), at),
                               ![node].len = at + l.curOutRem],
              loc |-> [l EXCEPT !.curInPos = l.curInPos + l.curOutRem,
                                !.curInRem = l.curInRem - l.curOutRem,
                                !.curOutRem = 0,
                                !.hasIn = (l.curInRem - l.curOutRem # 0)]]
        ELSE [nd |-> [N EXCEPT ![node].raw =
                         setArray(@, subarray(l.curInRaw, l.curInPos,
                                              Len(l.curInRaw)), at),
                               ![node].len = at + l.curInRem],
              loc |-> [l EXCEPT !.curOutPos = l.curOutPos + l.curInRem,
                                !.curOutRem = l.curOutRem - l.curInRem,
                                !.curInRem = 0,
                                !.hasIn = FALSE]]

\* The transfer of the loop body: the shorter of the two extents is copied
\* into the target buffer.  [nd, loc]
overwriteTransfer(N, l) ==
    LET node == l.curOutNode
        at   == l.outLo + l.curOutPos
    IN  IF l.curInRem >= l.curOutRem
        THEN [nd |-> [N EXCEPT ![node].raw =
                         setArray(@, subarray(l.curInRaw, l.curInPos,
                                              l.curInPos + l.curOutRem), at)],
              loc |-> [l EXCEPT !.curInPos = l.curInPos + l.curOutRem,
                                !.curInRem = l.curInRem - l.curOutRem,
                                !.curOutRem = 0,
                                !.hasIn = (l.curInRem - l.curOutRem # 0)]]
        ELSE [nd |-> [N EXCEPT ![node].raw =
                         setArray(@, subarray(l.curInRaw, l.curInPos,
                                              Len(l.curInRaw)), at)],
              loc |-> [l EXCEPT !.curOutPos = l.curOutPos + l.curInRem,
                                !.curOutRem = l.curOutRem - l.curInRem,
                                !.curInRem = 0,
                                !.hasIn = FALSE]]

\* Where the loop suspends next after a transfer.
overwriteAfter(l) == IF l.curOutRem = 0 THEN "o_close" ELSE "o_in"

\* Top of the loop with no target buffer at hand: await outRd.read().
OverwriteOut ==
    /\ pc = "o_out"
    /\ canRead(rs)
    /\ IF readDone(rs)
       THEN pc' = "o_drain" /\ UNCHANGED <<nd, loc, rs>>
       ELSE IF readThrows(rs)
       THEN pc' = "error" /\ UNCHANGED <<nd, loc, rs>>
       ELSE LET fr == Head(rs.queue)
                l1 == [loc EXCEPT !.curOutNode = fr.node, !.outLo = fr.lo,
                                  !.curOutPos = 0, !.curOutRem = fr.hi - fr.lo]
            IN  /\ rs' = [rs EXCEPT !.queue = Tail(@)]
                /\ IF l1.hasIn
                   THEN LET X == overwriteTransfer(nd, l1)
                        IN  nd' = X.nd /\ loc' = X.loc /\ pc' = overwriteAfter(X.loc)
                   ELSE nd' = nd /\ loc' = l1 /\ pc' = "o_in"
    /\ UNCHANGED <<root, store, nextId, nextSample, gh, ops>>

\* No new data at hand: await dataRd.read().  At the end of the data the
\* target buffer at hand is closed as modified.
OverwriteIn ==
    /\ pc = "o_in"
    /\ \E r \in reads(loc.pushed, loc.ended, nextSample) :
        /\ nextSample' = r.ns
        /\ gh' = IF r.fresh THEN [gh EXCEPT !.out = @ \o r.chunk] ELSE gh
        /\ IF r.null
           THEN LET W0 == [nd |-> nd, store |-> store]
                    W1 == closeRaw(W0, loc.curOutNode, TRUE)
                    W2 == IF loc.closeTwice
                          THEN closeRaw(W1, loc.curOutNode, FALSE) ELSE W1
                IN  /\ nd' = W2.nd /\ store' = W2.store
                    /\ loc' = [loc EXCEPT !.curOutNode = 0, !.pushed = r.pushed,
                                          !.ended = r.ended]
                    /\ pc' = "o_drain"
           ELSE LET l1 == [loc EXCEPT !.hasIn = TRUE, !.curInRaw = r.chunk,
                                      !.curInPos = 0, !.curInRem = Len(r.chunk),
                                      !.pushed = r.pushed, !.ended = r.ended]
                    X  == overwriteTransfer(nd, l1)
                IN  /\ nd' = X.nd /\ loc' = X.loc /\ pc' = overwriteAfter(X.loc)
                    /\ store' = store
    /\ UNCHANGED <<root, nextId, rs, ops>>

\* The target buffer is full: closeRaw(true), and once more with closeTwice.
OverwriteClose ==
    /\ pc = "o_close"
    /\ LET W0 == [nd |-> nd, store |-> store]
           W1 == closeRaw(W0, loc.curOutNode, TRUE)
           W2 == IF loc.closeTwice THEN closeRaw(W1, loc.curOutNode, FALSE) ELSE W1
       IN  nd' = W2.nd /\ store' = W2.store
    /\ loc' = [loc EXCEPT !.curOutNode = 0]
    /\ pc' = "o_out"
    /\ UNCHANGED <<root, nextId, nextSample, rs, gh, ops>>

\* OverwriteDrain as it would be if the remaining frames were read and their
\* nodes left open.
OverwriteDrainLeaves ==
    /\ pc = "o_drain"
    /\ canRead(rs)
    /\ IF readDone(rs)
       THEN pc' = "o_drain_in" /\ UNCHANGED <<nd, store, rs>>
       ELSE IF readThrows(rs)
       THEN pc' = "error" /\ UNCHANGED <<nd, store, rs>>
       ELSE /\ nd' = nd /\ store' = store
            /\ rs' = [rs EXCEPT !.queue = Tail(@)]
            /\ pc' = "o_drain"
    /\ UNCHANGED <<root, nextId, nextSample, loc, gh, ops>>

\* The target stream is finished off: each remaining frame's node is closed
\* unmodified.
OverwriteDrain ==
    /\ pc = "o_drain"
    /\ canRead(rs)
    /\ IF readDone(rs)
       THEN pc' = "o_drain_in" /\ UNCHANGED <<nd, store, rs>>
       ELSE IF readThrows(rs)
       THEN pc' = "error" /\ UNCHANGED <<nd, store, rs>>
       ELSE LET fr == Head(rs.queue)
                W0 == [nd |-> nd, store |-> store]
                W1 == closeRaw(W0, fr.node, FALSE)
                W2 == IF loc.closeTwice THEN closeRaw(W1, fr.node, FALSE) ELSE W1
            IN  /\ nd' = W2.nd /\ store' = W2.store
                /\ rs' = [rs EXCEPT !.queue = Tail(@)]
                /\ pc' = "o_drain"
    /\ UNCHANGED <<root, nextId, nextSample, loc, gh, ops>>

\* The data stream is finished off: read to its end.
OverwriteDrainIn ==
    /\ pc = "o_drain_in"
    /\ \E r \in reads(loc.pushed, loc.ended, nextSample) :
        /\ nextSample' = r.ns
        /\ gh' = IF r.fresh THEN [gh EXCEPT !.out = @ \o r.chunk] ELSE gh
        /\ loc' = [loc EXCEPT !.pushed = r.pushed, !.ended = r.ended]
        /\ pc' = IF r.null THEN "o_save" ELSE "o_drain_in"
    /\ UNCHANGED <<nd, root, store, nextId, rs, ops>>

\* await this.save().
OverwriteSave ==
    /\ pc = "o_save"
    /\ store' = saveTrack(store, 1, fillArray(nd, root[1]))
    /\ pc' = "idle"
    /\ loc' = NoLocals
    /\ rs' = NoStream
    /\ gh' = [gh EXCEPT !.done = loc]
    /\ UNCHANGED <<nd, root, nextId, nextSample, ops>>

overwrite ==
    \/ \E a, b \in 0 .. MaxSamples :
          a <= b /\ b <= subtreeDuration(nd, root[1]) /\ OverwriteStart(a, b, FALSE)
    \/ OverwriteResample
    \/ OverwriteOut
    \/ OverwriteIn
    \/ OverwriteClose
    \/ OverwriteDrain
    \/ OverwriteDrainIn
    \/ OverwriteSave

\* ------------------------------------------------------ AudioTrack.replace
\* The successor walk of replace's clip loop; 0: end of tree.
clipNext(N, cur) ==
    IF N[cur].right # 0 THEN leftmost(N, N[cur].right) ELSE climb(N, cur)

\* AudioData.load: len from the store, if the node's record is there.
loadNode(S, x, n) == IF n \in S.dataKeys THEN [x EXCEPT !.len = S.dataLen[n]] ELSE x

\* AudioData.del: never written again, and removed from the store.
delNode(W, n) ==
    [nd |-> [W.nd EXCEPT ![n].readers = Infinity], store |-> delStore(W.store, n)]

RECURSIVE delNodes(_, _)
delNodes(W, arr) ==
    IF arr = <<>> THEN W ELSE delNodes(delNode(W, Head(arr)), Tail(arr))

\* AudioTrack.del: every node of the tree, then the track record.
delTrack(W, r, t) ==
    LET W1 == delNodes(W, fillArray(W.nd, r))
    IN  [nd |-> W1.nd, store |-> [W1.store EXCEPT !.trackKeys = @ \ {t}]]

\* The sequence replace is meant to leave: [a, b) cut out, ins in its place.
min(x, y) == IF x <= y THEN x ELSE y
splice(orig, a, b, ins) ==
    SubSeq(orig, 1, min(a, Len(orig))) \o ins
        \o SubSeq(orig, min(b, Len(orig)) + 1, Len(orig))

\* replace(start, end, replacement) is called on track 1; R is 0 for no
\* replacement (null), else the replacement track.
ReplaceStart(a, b, R) ==
    /\ pc = "idle"
    /\ ops < MaxOps
    /\ ops' = ops + 1
    /\ pc' = "r_find"
    /\ loc' = [op |-> "replace", t |-> 1, start |-> a, end |-> b, R |-> R,
               startNode |-> 0, offset |-> 0, ret |-> "none", splitNext |-> 0,
               remaining |-> 0, cur |-> 0, newData |-> <<>>, d |-> <<>>, i |-> 0]
    /\ gh' = [gh EXCEPT !.edited[1] = TRUE, !.out = <<>>, !.done = NoLocals,
                        !.pre = snapshot(nd, store, root[1]),
                        !.preR = IF R = 0 THEN NoPre
                                 ELSE snapshot(nd, store, root[R]),
                        !.model[1] = splice(@, a, b,
                                            IF R = 0 THEN <<>> ELSE gh.model[R])]
    /\ UNCHANGED <<nd, root, store, nextId, nextSample, rs>>

\* A root is made up for an empty tree; 1: the start point is found, or is
\* the end of the rightmost node; its buffer is opened.
ReplaceFind ==
    /\ pc = "r_find"
    /\ root[1] = 0 => nextId <= MaxNodes
    /\ LET fresh == root[1] = 0
           N1    == IF fresh THEN [nd EXCEPT ![nextId] = initRaw(NewAudioData)]
                    ELSE nd
           r     == IF fresh THEN nextId ELSE root[1]
           sl    == find(N1, r, loc.start)
           node  == IF sl.found THEN sl.node ELSE rightmost(N1, r)
           off   == IF sl.found THEN sl.offset ELSE N1[node].len
           o     == openRaw([nd |-> N1, store |-> store], node)
       IN  /\ nd' = o.nd
           /\ store' = o.store
           /\ root' = [root EXCEPT ![1] = r]
           /\ nextId' = IF fresh THEN nextId + 1 ELSE nextId
           /\ loc' = [loc EXCEPT !.startNode = node, !.offset = off, !.ret = o.ret]
           /\ pc' = IF o.ret = "hang" THEN "hung" ELSE "r_split"
    /\ UNCHANGED <<nextSample, rs, gh, ops>>

\* 2: the node is split: the tail goes to a new node.  initRaw throws when
\* the start node's buffer is undefined.
ReplaceSplit ==
    /\ pc = "r_split"
    /\ nextId <= MaxNodes
    /\ nextId' = nextId + 1
    /\ IF loc.ret # "buf"
       THEN pc' = "error" /\ UNCHANGED <<nd, loc>>
       ELSE LET sn       == loc.startNode
                startRaw == nd[sn].raw
                y        == initRaw(NewAudioData)
                tail     == subarray(startRaw, loc.offset, nd[sn].len)
            IN  /\ nd' = [nd EXCEPT
                            ![nextId] = [y EXCEPT !.raw = setArray(y.raw, tail, 0),
                                                  !.len = nd[sn].len - loc.offset],
                            ![sn].len = loc.offset]
                /\ loc' = [loc EXCEPT !.splitNext = nextId]
                /\ pc' = "r_close1"
    /\ UNCHANGED <<root, store, nextSample, rs, gh, ops>>

\* await splitNext.closeRaw(true).
ReplaceClose1 ==
    /\ pc = "r_close1"
    /\ LET W == closeRaw([nd |-> nd, store |-> store], loc.splitNext, TRUE)
       IN  nd' = W.nd /\ store' = W.store
    /\ pc' = "r_close2"
    /\ UNCHANGED <<root, nextId, nextSample, loc, rs, gh, ops>>

\* splitLink as it would be if the old right subtree were not told of its
\* new parent.
splitLinkOneWay(N, sn, sp) ==
    [N EXCEPT ![sp].right = N[sn].right, ![sn].right = sp, ![sp].parent = sn]

\* splitLink as it would be if the start node's old right subtree were not
\* handed to the new node.
splitLinkLost(N, sn, sp) == [N EXCEPT ![sn].right = sp, ![sp].parent = sn]

\* The new node is linked in as the right child of the start node, the old
\* right subtree below it.
splitLink(N, sn, sp) ==
    LET N1 == [N EXCEPT ![sp].right = N[sn].right]
        N2 == IF N1[sp].right # 0 THEN [N1 EXCEPT ![N1[sp].right].parent = sp]
              ELSE N1
    IN  [N2 EXCEPT ![sn].right = sp, ![sp].parent = sn]

\* await startNode.closeRaw(true), then the links; 3: the clip begins.
ReplaceClose2 ==
    /\ pc = "r_close2"
    /\ LET W == closeRaw([nd |-> nd, store |-> store], loc.startNode, TRUE)
       IN  /\ nd' = splitLink(W.nd, loc.startNode, loc.splitNext)
           /\ store' = W.store
    /\ loc' = [loc EXCEPT !.remaining = loc.end - loc.start, !.cur = loc.startNode]
    /\ pc' = "r_clip"
    /\ UNCHANGED <<root, nextId, nextSample, rs, gh, ops>>

\* The clip loop moves to the next node and opens it; it ends when nothing
\* remains to cut or the tree is exhausted.
ReplaceClip ==
    /\ pc = "r_clip"
    /\ LET next == IF loc.remaining = 0 THEN 0 ELSE clipNext(nd, loc.cur)
       IN  IF next = 0
           THEN pc' = "r_steal" /\ UNCHANGED <<nd, store, loc>>
           ELSE LET o == openRaw([nd |-> nd, store |-> store], next)
                IN  /\ nd' = o.nd
                    /\ store' = o.store
                    /\ loc' = [loc EXCEPT !.cur = next, !.ret = o.ret]
                    /\ pc' = IF o.ret = "hang" THEN "hung" ELSE "r_cut"
    /\ UNCHANGED <<root, nextId, nextSample, rs, gh, ops>>

\* clipCut as it would be if a partial cut moved the data and kept len.
clipCutKeepsLen(N, cur, remaining) ==
    IF remaining >= N[cur].len
    THEN [nd |-> [N EXCEPT ![cur].len = 0], remaining |-> remaining - N[cur].len]
    ELSE [nd |-> [N EXCEPT
                    ![cur].raw = setArray(@, subarray(@, remaining, Len(@)), 0)],
          remaining |-> 0]

\* The node is cut out entirely or in part.  [nd, remaining]
clipCut(N, cur, remaining) ==
    IF remaining >= N[cur].len
    THEN [nd |-> [N EXCEPT ![cur].len = 0], remaining |-> remaining - N[cur].len]
    ELSE [nd |-> [N EXCEPT
                    ![cur].raw = setArray(@, subarray(@, remaining, Len(@)), 0),
                    ![cur].len = @ - remaining],
          remaining |-> 0]

\* The cut, then await cur.closeRaw(true).  A partial cut of an undefined
\* buffer throws.
ReplaceCut ==
    /\ pc = "r_cut"
    /\ IF loc.remaining < nd[loc.cur].len /\ loc.ret # "buf"
       THEN pc' = "error" /\ UNCHANGED <<nd, store, loc>>
       ELSE LET C == clipCut(nd, loc.cur, loc.remaining)
                W == closeRaw([nd |-> C.nd, store |-> store], loc.cur, TRUE)
            IN  /\ nd' = W.nd
                /\ store' = W.store
                /\ loc' = [loc EXCEPT !.remaining = C.remaining]
                /\ pc' = "r_clip"
    /\ UNCHANGED <<root, nextId, nextSample, rs, gh, ops>>

\* ReplaceSteal as it would be if the replacement kept its root, so that
\* its del() reached the nodes taken from it.
ReplaceStealKeepsRoot ==
    /\ pc = "r_steal"
    /\ IF loc.R # 0 /\ root[loc.R] = 0
       THEN pc' = "error" /\ UNCHANGED <<root, loc, gh>>
       ELSE /\ loc' = [loc EXCEPT
                         !.newData = IF loc.R = 0 THEN <<>>
                                     ELSE fillArray(nd, root[loc.R]),
                         !.cur = loc.startNode]
            /\ root' = root
            /\ gh' = IF loc.R = 0 THEN gh
                     ELSE [gh EXCEPT !.model[loc.R] = <<>>]
            /\ pc' = "r_insert"
    /\ UNCHANGED <<nd, store, nextId, nextSample, rs, ops>>

\* 4: the replacement's nodes are taken; replacement.root.fillArray throws
\* when the replacement has no root.
ReplaceSteal ==
    /\ pc = "r_steal"
    /\ IF loc.R # 0 /\ root[loc.R] = 0
       THEN pc' = "error" /\ UNCHANGED <<root, loc, gh>>
       ELSE /\ loc' = [loc EXCEPT
                         !.newData = IF loc.R = 0 THEN <<>>
                                     ELSE fillArray(nd, root[loc.R]),
                         !.cur = loc.startNode]
            /\ root' = IF loc.R = 0 THEN root ELSE [root EXCEPT ![loc.R] = 0]
            /\ gh' = IF loc.R = 0 THEN gh
                     ELSE [gh EXCEPT !.model[loc.R] = <<>>]
            /\ pc' = "r_insert"
    /\ UNCHANGED <<nd, store, nextId, nextSample, rs, ops>>

\* insertNode as it would be if the new object were not loaded.
insertNodeUnloaded(N, S, cur, id) ==
    LET N1 == [N EXCEPT ![id] = [NewAudioData EXCEPT !.right = N[cur].right]]
        N2 == [N1 EXCEPT ![N1[id].right].parent = id]
    IN  [N2 EXCEPT ![cur].right = id, ![id].parent = cur]

\* One taken node: a new object of the same id, loaded, linked in after cur.
insertNode(N, S, cur, id) ==
    LET x  == loadNode(S, NewAudioData, id)
        N1 == [N EXCEPT ![id] = [x EXCEPT !.right = N[cur].right]]
        N2 == [N1 EXCEPT ![N1[id].right].parent = id]
    IN  [N2 EXCEPT ![cur].right = id, ![id].parent = cur]

\* 5: the taken nodes are inserted, one per step.
ReplaceInsert ==
    /\ pc = "r_insert"
    /\ IF loc.newData = <<>>
       THEN pc' = "r_del" /\ UNCHANGED <<nd, loc>>
       ELSE /\ nd' = insertNode(nd, store, loc.cur, Head(loc.newData))
            /\ loc' = [loc EXCEPT !.cur = Head(loc.newData),
                                  !.newData = Tail(loc.newData)]
            /\ pc' = "r_insert"
    /\ UNCHANGED <<root, store, nextId, nextSample, rs, gh, ops>>

\* 6: the replacement track is deleted; 7 starts from the last node.
ReplaceDel ==
    /\ pc = "r_del"
    /\ IF loc.R # 0
       THEN LET W == delTrack([nd |-> nd, store |-> store], root[loc.R], loc.R)
            IN  nd' = W.nd /\ store' = W.store
       ELSE UNCHANGED <<nd, store>>
    /\ loc' = [loc EXCEPT !.d = fillArray(nd, root[1]),
                          !.i = Len(fillArray(nd, root[1]))]
    /\ pc' = "r_sanitize"
    /\ UNCHANGED <<root, nextId, nextSample, rs, gh, ops>>

RECURSIVE lastEmptySkipsFirst(_, _, _)
\* lastEmpty as it would be if the loop stopped before index 0 of the array.
lastEmptySkipsFirst(N, d, i) ==
    IF i <= 1 THEN 0
    ELSE IF N[d[i]].len = 0 THEN i ELSE lastEmptySkipsFirst(N, d, i - 1)

RECURSIVE lastEmpty(_, _, _)
\* The last index at or before i of a node with len 0; 0: none.
lastEmpty(N, d, i) ==
    IF i = 0 THEN 0 ELSE IF N[d[i]].len = 0 THEN i ELSE lastEmpty(N, d, i - 1)

\* d.splice(i, 1)
spliceOut(d, i) == SubSeq(d, 1, i - 1) \o SubSeq(d, i + 1, Len(d))

\* 7: the next empty node, from the end, is deleted and taken out of the
\* array; 8: when none is left the array becomes the tree.
ReplaceSanitize ==
    /\ pc = "r_sanitize"
    /\ LET j == lastEmpty(nd, loc.d, loc.i)
       IN  IF j # 0
           THEN LET W == delNode([nd |-> nd, store |-> store], loc.d[j])
                IN  /\ nd' = W.nd
                    /\ store' = W.store
                    /\ loc' = [loc EXCEPT !.d = spliceOut(loc.d, j), !.i = j - 1]
                    /\ pc' = "r_sanitize"
                    /\ root' = root
           ELSE LET B == balanceArray(nd, loc.d)
                IN  /\ nd' = B.N
                    /\ root' = [root EXCEPT ![1] = B.root]
                    /\ store' = store
                    /\ loc' = [loc EXCEPT !.i = 0]
                    /\ pc' = "r_save"
    /\ UNCHANGED <<nextId, nextSample, rs, gh, ops>>

\* await this.save().
ReplaceSave ==
    /\ pc = "r_save"
    /\ store' = saveTrack(store, 1, fillArray(nd, root[1]))
    /\ pc' = "idle"
    /\ loc' = NoLocals
    /\ gh' = [gh EXCEPT !.done = loc]
    /\ UNCHANGED <<nd, root, nextId, nextSample, rs, ops>>

replace ==
    \/ \E a, b \in 0 .. MaxSamples + 1, R \in {0, 2} :
          /\ a <= b
          /\ b <= subtreeDuration(nd, root[1]) + 1
          /\ ReplaceStart(a, b, R)
    \/ ReplaceFind
    \/ ReplaceSplit
    \/ ReplaceClose1
    \/ ReplaceClose2
    \/ ReplaceClip
    \/ ReplaceCut
    \/ ReplaceSteal
    \/ ReplaceInsert
    \/ ReplaceDel
    \/ ReplaceSanitize
    \/ ReplaceSave

\* --------------------------------------------------------- AudioTrack.load
RECURSIVE loadParts(_, _, _)
\* new AudioData(dataId, this) and part.load() for each id of the record.
loadParts(N, S, ids) ==
    IF ids = <<>> THEN N
    ELSE loadParts([N EXCEPT ![Head(ids)] = loadNode(S, NewAudioData, Head(ids))],
                   S, Tail(ids))

\* load() on track 1: the nodes are made anew from the store and balanced.
Load ==
    /\ pc = "idle"
    /\ 1 \in store.trackKeys
    /\ LET d == store.trackData[1]
           B == balanceArray(loadParts(nd, store, d), d)
       IN  nd' = B.N /\ root' = [root EXCEPT ![1] = B.root]
    /\ gh' = [gh EXCEPT !.done = [op |-> "load"], !.out = <<>>,
                        !.pre = snapshot(nd, store, root[1])]
    /\ UNCHANGED <<store, nextId, nextSample, pc, loc, rs, ops>>

append ==
    \/ \E t \in Tracks : AppendStart(t)
    \/ AppendFirst
    \/ AppendRead
    \/ AppendNode
    \/ AppendClose
    \/ AppendLast
    \/ AppendRebalance
    \/ AppendSave

Next ==
    \/ append
    \/ overwrite
    \/ replace
    \/ Load
    \/ StreamStart
    \/ StreamPull
    \/ ReadStart(1, 0, 0, TRUE)
    \/ ReadChunk

Spec == Init /\ [][Next]_vars

\* ------------------------------------------- sources with empty frames
\* append and the reader on track 1, the source delivering frames of 0 to
\* MaxFrame samples.
AppendFirstZero == appendFirst(readsZero(loc.pushed, loc.ended, nextSample))

AppendReadZero == appendRead(readsZero(loc.pushed, loc.ended, nextSample))

NextZero ==
    \/ AppendStart(1)
    \/ AppendFirstZero
    \/ AppendReadZero
    \/ AppendNode
    \/ AppendClose
    \/ AppendLast
    \/ AppendRebalance
    \/ AppendSave
    \/ StreamStart
    \/ StreamPull
    \/ ReadStart(1, 0, 0, TRUE)
    \/ ReadChunk

SpecZero == Init /\ [][NextZero]_vars

\* ------------------------------------------- a reader beside an append
\* While append runs on track 1, suspended at one of its awaits or not yet
\* started, another task reads the track with stream({start}) (no keepOpen,
\* the end left to its default): start() and pull() run between append's
\* steps, and the consumer takes the frames from the queue.
LiveStart(a) ==
    /\ rs.st = "none"
    /\ pc # "idle"
    /\ rs' = stream(nd, root[1], 1, a, 0, TRUE, FALSE)
    /\ UNCHANGED <<nd, root, store, nextId, nextSample, ops, pc, loc, gh>>

\* reader.read() gives the frame at the head of the queue.
LiveTake ==
    /\ rs.st # "none"
    /\ rs.queue # <<>>
    /\ rs' = [rs EXCEPT !.queue = Tail(@)]
    /\ UNCHANGED <<nd, root, store, nextId, nextSample, ops, pc, loc, gh>>

\* reader.read() reports the end, and the reader is dropped.
LiveEnd ==
    /\ rs.st # "none"
    /\ readDone(rs)
    /\ rs' = NoStream
    /\ UNCHANGED <<nd, root, store, nextId, nextSample, ops, pc, loc, gh>>

NextLive ==
    \/ AppendStart(1)
    \/ AppendFirst
    \/ AppendRead
    \/ AppendNode
    \/ AppendClose
    \/ AppendLast
    \/ AppendRebalance
    \/ AppendSave
    \/ \E a \in 0 .. MaxSamples : LiveStart(a)
    \/ StreamStart
    \/ StreamPull
    \/ LiveTake
    \/ LiveEnd

SpecLive == Init /\ [][NextLive]_vars

\* ------------------------------------------------ trees of any shape
\* rebalance() is also checked on trees that the track operations never
\* build: nodes are hung one at a time under any free side of any node, pos
\* left as it was, so that pos is stale wherever no rebalance has passed.
InitTree ==
    /\ nd = [i \in Ids |-> NewAudioData]
    /\ root = [t \in Tracks |-> 0]
    /\ store = EmptyStore
    /\ nextId = 1
    /\ nextSample = 1
    /\ ops = 0
    /\ pc = "tree"
    /\ loc = NoLocals
    /\ rs = NoStream
    /\ gh = InitHistory

\* The nodes of track 1's tree.
treeNodes == {fillArray(nd, root[1])[i] : i \in 1 .. Len(fillArray(nd, root[1]))}

\* this.root = new AudioData(...), holding len samples.
TreeRoot(len) ==
    /\ pc = "tree"
    /\ root[1] = 0
    /\ nextId <= MaxTreeNodes
    /\ nd' = [nd EXCEPT ![nextId].len = len]
    /\ root' = [root EXCEPT ![1] = nextId]
    /\ nextId' = nextId + 1
    /\ gh' = [gh EXCEPT !.pre = NoPre, !.done = [op |-> "attach"]]
    /\ UNCHANGED <<store, nextSample, ops, pc, loc, rs>>

\* A new node of len samples becomes the left or the right child of p.
TreeAttach(p, isLeft, len) ==
    /\ pc = "tree"
    /\ p \in treeNodes
    /\ nextId <= MaxTreeNodes
    /\ IF isLeft THEN nd[p].left = 0 ELSE nd[p].right = 0
    /\ nd' = IF isLeft
             THEN [nd EXCEPT ![nextId].len = len, ![nextId].parent = p,
                             ![p].left = nextId]
             ELSE [nd EXCEPT ![nextId].len = len, ![nextId].parent = p,
                             ![p].right = nextId]
    /\ nextId' = nextId + 1
    /\ gh' = [gh EXCEPT !.pre = NoPre, !.done = [op |-> "attach"]]
    /\ UNCHANGED <<root, store, nextSample, ops, pc, loc, rs>>

\* this.root = this.root.rebalance()
TreeRebalance ==
    /\ pc = "tree"
    /\ root[1] # 0
    /\ LET B == rebalance(nd, root[1])
       IN  nd' = B.N /\ root' = [root EXCEPT ![1] = B.root]
    /\ gh' = [gh EXCEPT !.pre = snapshot(nd, store, root[1]),
                        !.done = [op |-> "rebalance", root |-> root[1]]]
    /\ UNCHANGED <<store, nextId, nextSample, ops, pc, loc, rs>>

NextTree ==
    \/ \E len \in 0 .. MaxLen : TreeRoot(len)
    \/ \E p \in Ids, isLeft \in BOOLEAN, len \in 0 .. MaxLen : TreeAttach(p, isLeft, len)
    \/ TreeRebalance

SpecTree == InitTree /\ [][NextTree]_vars

\* ------------------------------------------------ right chains
\* rebalance() on the trees that a run of insertAfter constructions leaves:
\* each node the right child of the one before, every pos 0, any lens.
InitChain ==
    \E n \in 1 .. MaxNodes : \E lens \in [1 .. n -> 0 .. MaxLen] :
        /\ nd = [i \in Ids |->
                    IF i <= n
                    THEN [NewAudioData EXCEPT
                              !.len = lens[i],
                              !.parent = i - 1,
                              !.right = IF i < n THEN i + 1 ELSE 0]
                    ELSE NewAudioData]
        /\ root = [t \in Tracks |-> IF t = 1 THEN 1 ELSE 0]
        /\ store = EmptyStore
        /\ nextId = n + 1
        /\ nextSample = 1
        /\ ops = 0
        /\ pc = "tree"
        /\ loc = NoLocals
        /\ rs = NoStream
        /\ gh = InitHistory

NextChain == TreeRebalance

SpecChain == InitChain /\ [][NextChain]_vars

\* --------------------------------------- one cache entry, many callers
\* Callers open and close node 1 concurrently.  Each call advances from one
\* await to the next in one step; the steps of different callers interleave
\* freely.  loc[c] is caller c's position: "out" (no call running, nothing
\* held), "load" (openRaw, awaiting the store's getItem), "decode" (openRaw,
\* awaiting the decoder), "wait" (openRaw, awaiting rawPromise), "open"
\* (openRaw has returned, closeRaw not yet called), "wavpack", "render",
\* "save" (closeRaw, awaiting these), "threw" (closeRaw threw).
\* History: gen counts the buffers made, buf is the identity of the
\* resident buffer (0: none), flights
\* the number of load paths entered, decodes[f] the number of decodes run for
\* flight f and bufs[f] the buffer flight f produced; silent whether a
\* closeRaw called with no reader counted has returned normally, wrote
\* whether such a call has written to the store.  ret is what openRaw
\* returned: "buf" (this.raw, identity got) or "undefined".
Callers == 1 .. MaxCallers
Flights == 1 .. MaxOpens

CacheSamples == <<1, 2>>

NoCall == [at |-> "out", got |-> 0, ret |-> "none", flight |-> 0,
           blob |-> encode(<<>>), hasBlob |-> FALSE,
           raw |-> <<>>, hasRawArg |-> FALSE, over |-> FALSE]

InitCache ==
    /\ \E present \in BOOLEAN :
          /\ nd = [i \in Ids |->
                     IF i = 1 /\ present
                     THEN [NewAudioData EXCEPT !.len = Len(CacheSamples)]
                     ELSE NewAudioData]
          /\ store = IF present
                     THEN [EmptyStore EXCEPT !.dataKeys = {1},
                                             !.dataLen[1] = Len(CacheSamples),
                                             !.wvKeys = {1},
                                             !.wv[1] = encode(CacheSamples),
                                             !.waveKeys = {1}]
                     ELSE [EmptyStore EXCEPT !.dataKeys = {1}]
    /\ root = [t \in Tracks |-> IF t = 1 THEN 1 ELSE 0]
    /\ nextId = 2
    /\ nextSample = 1
    /\ ops = 0
    /\ pc = "cache"
    /\ loc = [c \in Callers |-> NoCall]
    /\ rs = NoStream
    /\ gh = [gen |-> 0, buf |-> 0, flights |-> 0,
             decodes |-> [f \in Flights |-> 0], bufs |-> [f \in Flights |-> 0],
             silent |-> FALSE, wrote |-> FALSE]

\* openRaw() up to its first await, or to its return when the buffer is
\* resident.
OpenBegin(c) ==
    /\ pc = "cache"
    /\ loc[c].at = "out"
    /\ ops < MaxOpens
    /\ ops' = ops + 1
    /\ nd' = [nd EXCEPT ![1] = openRawBegin(nd[1])]
    /\ LET path == openRawPath(nd[1])
       IN  CASE path = "hit" ->
                   /\ loc' = [loc EXCEPT ![c] = [NoCall EXCEPT !.at = "open",
                                                               !.ret = "buf",
                                                               !.got = gh.buf]]
                   /\ gh' = gh
             [] path = "wait" ->
                   /\ loc' = [loc EXCEPT ![c] = [NoCall EXCEPT !.at = "wait",
                                                               !.flight = gh.flights]]
                   /\ gh' = gh
             [] path = "load" ->
                   /\ loc' = [loc EXCEPT ![c] = [NoCall EXCEPT !.at = "load",
                                                               !.flight = gh.flights + 1]]
                   /\ gh' = [gh EXCEPT !.flights = @ + 1]
    /\ UNCHANGED <<root, store, nextId, nextSample, pc, rs>>

\* wavpack = await store.getItem("audio-data-compressed-" + id); without
\* it the call returns undefined, and rawPromise stays as it is.
OpenFetch(c) ==
    /\ pc = "cache"
    /\ loc[c].at = "load"
    /\ IF 1 \in store.wvKeys
       THEN loc' = [loc EXCEPT ![c].at = "decode", ![c].blob = store.wv[1],
                               ![c].hasBlob = TRUE]
       ELSE loc' = [loc EXCEPT ![c] = [NoCall EXCEPT !.at = "open",
                                                     !.ret = "undefined"]]
    /\ UNCHANGED <<nd, root, store, nextId, nextSample, ops, pc, rs, gh>>

\* The decoder has run: this.raw = ret; rawRes(null); this.rawPromise = null;
\* return ret.  The callers awaiting rawPromise are resumed by rawRes, as
\* promise reactions that run before any other task's step, and return
\* this.raw.
OpenEnd(c) ==
    /\ pc = "cache"
    /\ loc[c].at = "decode"
    /\ nd' = [nd EXCEPT ![1] = openRawEnd(nd[1], loc[c].blob)]
    /\ LET f  == loc[c].flight
           id == gh.gen + 1
       IN  /\ gh' = [gh EXCEPT !.gen = id, !.buf = id, !.decodes[f] = @ + 1,
                                 !.bufs[f] = id]
           /\ loc' = [d \in Callers |->
                        IF d = c \/ loc[d].at = "wait"
                        THEN [NoCall EXCEPT !.at = "open", !.ret = "buf",
                                            !.got = id,
                                            !.flight = loc[d].flight]
                        ELSE loc[d]]
    /\ UNCHANGED <<root, store, nextId, nextSample, ops, pc, rs>>

\* closeRaw(modified) up to its first await, or to its return: a closer
\* that is not the last, or the last with nothing modified.  over: the call
\* is made by a caller that holds nothing.
closeBegin(c, modified, over) ==
    /\ pc = "cache"
    /\ LET y == closeRawBegin(nd[1], modified)
       IN  IF closeRawLast(nd[1])
           THEN IF y.rawModified
                THEN /\ nd' = [nd EXCEPT ![1] = y]
                     /\ loc' = [loc EXCEPT ![c] =
                                  IF y.len # 0
                                  THEN [NoCall EXCEPT !.at = "wavpack", !.raw = y.raw,
                                                      !.hasRawArg = y.hasRaw,
                                                      !.over = over]
                                  ELSE [NoCall EXCEPT !.at = "save", !.over = over]]
                     /\ gh' = gh
                ELSE /\ nd' = [nd EXCEPT ![1] = closeRawEnd(y)]
                     /\ loc' = [loc EXCEPT ![c] = NoCall]
                     /\ gh' = [gh EXCEPT !.buf = 0, !.silent = @ \/ over]
           ELSE /\ nd' = [nd EXCEPT ![1] = y]
                /\ loc' = [loc EXCEPT ![c] = NoCall]
                /\ gh' = [gh EXCEPT !.silent = @ \/ over]
    /\ UNCHANGED <<root, store, nextId, nextSample, ops, pc, rs>>

\* closeRaw(modified) by a caller whose openRaw has returned.
CloseBegin(c, modified) ==
    /\ loc[c].at = "open"
    /\ closeBegin(c, modified, FALSE)

\* closeRaw(modified) once more than opened: by a caller that holds
\* nothing, while no reader is counted.
OverClose(c, modified) ==
    /\ loc[c].at = "out"
    /\ nd[1].readers = 0
    /\ ~gh.silent
    /\ \A d \in Callers : ~loc[d].over
    /\ closeBegin(c, modified, TRUE)

\* await this.wavpack(this.raw): the buffer the call was given is encoded
\* and stored; without a buffer the call throws.
CloseWavpack(c) ==
    /\ pc = "cache"
    /\ loc[c].at = "wavpack"
    /\ IF loc[c].hasRawArg
       THEN /\ store' = wavpack([nd EXCEPT ![1].raw = loc[c].raw], store, 1)
            /\ loc' = [loc EXCEPT ![c].at = "render"]
            /\ gh' = [gh EXCEPT !.wrote = @ \/ loc[c].over]
       ELSE /\ store' = store
            /\ loc' = [loc EXCEPT ![c] = [NoCall EXCEPT !.at = "threw"]]
            /\ gh' = gh
    /\ UNCHANGED <<nd, root, nextId, nextSample, ops, pc, rs>>

\* await this.render(this.raw): the buffer is read from the node now.
CloseRender(c) ==
    /\ pc = "cache"
    /\ loc[c].at = "render"
    /\ IF nd[1].hasRaw
       THEN /\ store' = render(nd, store, 1)
            /\ loc' = [loc EXCEPT ![c] = [NoCall EXCEPT !.at = "save",
                                                        !.over = loc[c].over]]
       ELSE /\ store' = store
            /\ loc' = [loc EXCEPT ![c] = [NoCall EXCEPT !.at = "threw"]]
    /\ UNCHANGED <<nd, root, nextId, nextSample, ops, pc, rs, gh>>

\* await this.save(); this.raw = null; this.rawModified = false.
CloseSave(c) ==
    /\ pc = "cache"
    /\ loc[c].at = "save"
    /\ store' = save(nd, store, 1)
    /\ nd' = [nd EXCEPT ![1] = closeRawEnd(nd[1])]
    /\ loc' = [loc EXCEPT ![c] = NoCall]
    /\ gh' = [gh EXCEPT !.buf = 0, !.silent = @ \/ loc[c].over,
                        !.wrote = @ \/ loc[c].over]
    /\ UNCHANGED <<root, nextId, nextSample, ops, pc, rs>>

NextCache ==
    \/ \E c \in Callers : OpenBegin(c)
    \/ \E c \in Callers : OpenFetch(c)
    \/ \E c \in Callers : OpenEnd(c)
    \/ \E c \in Callers, modified \in BOOLEAN : CloseBegin(c, modified)
    \/ \E c \in Callers : CloseWavpack(c)
    \/ \E c \in Callers : CloseRender(c)
    \/ \E c \in Callers : CloseSave(c)

SpecCache == InitCache /\ [][NextCache]_vars

\* The same callers, one of which may also close once without having opened.
NextOverClose ==
    \/ NextCache
    \/ \E c \in Callers, modified \in BOOLEAN : OverClose(c, modified)

SpecOverClose == InitCache /\ [][NextOverClose]_vars

\* ------------------------------------------------ del() among the callers
\* del() is called once on node 1 while the callers open and close it.  rs
\* is del's position: "none" (not called), "d_meta" (readers set, awaiting
\* the removal of audio-data-), "d_wave" (awaiting the removal of
\* audio-data-wave-), "d_done" (returned).

\* del's first step as it would be without the assignment to readers.
DelBeginUnmarked ==
    /\ pc = "cache"
    /\ rs.st = "none"
    /\ rs' = [st |-> "d_meta"]
    /\ UNCHANGED <<nd, root, store, nextId, nextSample, ops, pc, loc, gh>>

\* this.readers = Infinity, up to the first await.
DelBegin ==
    /\ pc = "cache"
    /\ rs.st = "none"
    /\ nd' = [nd EXCEPT ![1].readers = Infinity]
    /\ rs' = [st |-> "d_meta"]
    /\ UNCHANGED <<root, store, nextId, nextSample, ops, pc, loc, gh>>

\* await store.removeItem("audio-data-" + id)
DelMeta ==
    /\ pc = "cache"
    /\ rs.st = "d_meta"
    /\ store' = [store EXCEPT !.dataKeys = @ \ {1}]
    /\ rs' = [st |-> "d_wave"]
    /\ UNCHANGED <<nd, root, nextId, nextSample, ops, pc, loc, gh>>

\* await store.removeItem("audio-data-wave-" + id)
DelWave ==
    /\ pc = "cache"
    /\ rs.st = "d_wave"
    /\ store' = [store EXCEPT !.waveKeys = @ \ {1}]
    /\ rs' = [st |-> "d_done"]
    /\ UNCHANGED <<nd, root, nextId, nextSample, ops, pc, loc, gh>>

NextDel ==
    \/ NextCache
    \/ DelBegin
    \/ DelMeta
    \/ DelWave

SpecDel == InitCache /\ [][NextDel]_vars

\* ------------------------------------------------- a failing store operation
\* closeRaw(true) of node n writes to the store (compress, save) when this
\* was the node's last reader.
closeWrites(n) == n # 0 /\ nd[n].readers <= 1

\* The running operation is suspended on a store operation: the save of a
\* new node or of the track, or a closeRaw(true) that flushes.
storeAwait ==
    \/ pc \in {"a_node", "a_save", "o_save", "r_save"}
    \/ pc \in {"a_close", "a_last"} /\ closeWrites(loc.cur)
    \/ pc = "o_close" /\ closeWrites(loc.curOutNode)
    \/ pc = "r_close1" /\ closeWrites(loc.splitNext)
    \/ pc = "r_close2" /\ closeWrites(loc.startNode)
    \/ pc = "r_cut" /\ closeWrites(loc.cur)
                    /\ ~(loc.remaining < nd[loc.cur].len /\ loc.ret # "buf")

\* The store operation rejects: the await rethrows, append, overwrite and
\* replace catch nothing, and the operation ends there with the tree as it
\* stood at the suspension.
StoreFails ==
    /\ storeAwait
    /\ pc' = "failed"
    /\ UNCHANGED <<nd, root, store, nextId, nextSample, ops, loc, rs, gh>>

NextFail == Next \/ StoreFails

SpecFail == Init /\ [][NextFail]_vars

\* ------------------------------------------------- concurrent stream() reads
\* Readers consume stream({start, end}) of track 1 at the same time, without
\* keepOpen, each stepping at the awaits of start(), pull() and openRaw.  The
\* track is quiescent and stored: 0 .. MaxParts nodes of 1 .. Capacity
\* samples each, balanced by rebalance, none resident.  loc[r] is reader r:
\* at is "out" (not started), "load" (its openRaw awaits the store), "decode"
\* (awaits the decoder), "wait" (awaits rawPromise), "opened" (openRaw has
\* returned buf), "closed" (closeRaw has returned), "pull" (the frame was
\* enqueued and taken), "done" (the stream is closed and drained) or
\* "errored".
Readers == {1, 2}

NoReader ==
    [at |-> "out", start |-> 0, end |-> 0, cur |-> 0, offset |-> 0,
     remaining |-> 0, buf |-> <<>>, out |-> <<>>, frames |-> 0, waited |-> FALSE]

\* The first sample number of part i of a track with these lens.
firstOf(lens, i) == sum(SubSeq(lens, 1, i - 1)) + 1

\* The nodes of a stored track before they are linked.
partNodes(lens) ==
    [i \in Ids |-> IF i <= Len(lens) THEN [NewAudioData EXCEPT !.len = lens[i]]
                   ELSE NewAudioData]

\* The store of a stored track: what closeRaw(true) of each node and save()
\* of the track wrote.
partStore(lens) ==
    [dataKeys |-> 1 .. Len(lens),
     dataLen |-> [i \in Ids |-> IF i <= Len(lens) THEN lens[i] ELSE 0],
     wvKeys |-> 1 .. Len(lens),
     wv |-> [i \in Ids |-> IF i <= Len(lens)
                           THEN encode(frameFrom(firstOf(lens, i), lens[i]))
                           ELSE encode(<<>>)],
     waveKeys |-> 1 .. Len(lens),
     trackKeys |-> {1},
     trackData |-> [t \in Tracks |-> IF t = 1 THEN [i \in 1 .. Len(lens) |-> i]
                                     ELSE <<>>]]

InitReads ==
    \E k \in 0 .. MaxParts : \E lens \in [1 .. k -> 1 .. Capacity] :
        LET B == balanceArray(partNodes(lens), [i \in 1 .. k |-> i])
        IN  /\ nd = B.N
            /\ root = [t \in Tracks |-> IF t = 1 THEN B.root ELSE 0]
            /\ store = partStore(lens)
            /\ nextId = k + 1
            /\ nextSample = sum(lens) + 1
            /\ ops = 0
            /\ pc = "reads"
            /\ loc = [r \in Readers |-> NoReader]
            /\ rs = NoStream
            /\ gh = [pre |-> snapshot(B.N, partStore(lens), B.root),
                     store0 |-> partStore(lens), wrote |-> FALSE]

\* await cur.openRaw() up to openRaw's first suspension, for reader record x
\* on node n.  [nd, x]
readerOpen(N, x, n) ==
    LET path == openRawPath(N[n])
    IN  [nd |-> [N EXCEPT ![n] = openRawBegin(N[n])],
         x  |-> [x EXCEPT !.cur = n,
                          !.at = IF path = "hit" THEN "opened" ELSE path,
                          !.buf = IF path = "hit" THEN N[n].raw ELSE <<>>,
                          !.waited = @ \/ path = "wait"]]

\* stream({start: a, end: b}) is called and start() runs to its first await.
ReaderStart(r, a, b) ==
    /\ pc = "reads"
    /\ loc[r].at = "out"
    /\ LET R == stream(nd, root[1], 1, a, b, FALSE, FALSE)
           x == [NoReader EXCEPT !.start = a, !.end = b, !.offset = R.offset,
                                 !.remaining = R.remaining]
       IN  IF R.st = "closed"
           THEN /\ loc' = [loc EXCEPT ![r] = [x EXCEPT !.at = "done"]]
                /\ nd' = nd
           ELSE LET o == readerOpen(nd, x, R.cur)
                IN  nd' = o.nd /\ loc' = [loc EXCEPT ![r] = o.x]
    /\ UNCHANGED <<root, store, nextId, nextSample, ops, pc, rs, gh>>

\* The loader's store.getItem returns; without compressed bytes openRaw
\* returns undefined and start or pull throws at buf.subarray.
ReaderFetch(r) ==
    /\ pc = "reads"
    /\ loc[r].at = "load"
    /\ loc' = [loc EXCEPT ![r].at = IF loc[r].cur \in store.wvKeys THEN "decode"
                                    ELSE "errored"]
    /\ UNCHANGED <<nd, root, store, nextId, nextSample, ops, pc, rs, gh>>

\* The loader's decode ends: the buffer is set, the promise resolved, and the
\* loader and the readers awaiting the promise have the buffer.
ReaderDecoded(r) ==
    /\ pc = "reads"
    /\ loc[r].at = "decode"
    /\ LET n == loc[r].cur
           y == openRawEnd(nd[n], store.wv[n])
       IN  /\ nd' = [nd EXCEPT ![n] = y]
           /\ loc' = [q \in Readers |->
                        IF q = r \/ (loc[q].at = "wait" /\ loc[q].cur = n)
                        THEN [loc[q] EXCEPT !.at = "opened", !.buf = y.raw]
                        ELSE loc[q]]
    /\ UNCHANGED <<root, store, nextId, nextSample, ops, pc, rs, gh>>

\* await cur.closeRaw().
ReaderClose(r) ==
    /\ pc = "reads"
    /\ loc[r].at = "opened"
    /\ LET n == loc[r].cur
           W == closeRaw([nd |-> nd, store |-> store], n, FALSE)
       IN  /\ nd' = W.nd
           /\ store' = W.store
           /\ gh' = [gh EXCEPT !.wrote = @ \/ (closeRawLast(nd[n]) /\ nd[n].rawModified)]
    /\ loc' = [loc EXCEPT ![r].at = "closed"]
    /\ UNCHANGED <<root, nextId, nextSample, ops, pc, rs>>

\* The frame is cut and enqueued, and the consumer takes it; the stream is
\* closed when nothing remains.
ReaderEnqueue(r) ==
    /\ pc = "reads"
    /\ loc[r].at = "closed"
    /\ LET x    == loc[r]
           hi   == streamCut(x.buf, x.offset, x.remaining)
           data == subarray(x.buf, x.offset, hi)
           rem  == x.remaining - Len(data)
       IN  loc' = [loc EXCEPT ![r] =
                      [x EXCEPT !.out = @ \o data, !.frames = @ + 1,
                                !.remaining = rem, !.offset = 0, !.buf = <<>>,
                                !.at = IF rem <= 0 THEN "done" ELSE "pull"]]
    /\ UNCHANGED <<nd, root, store, nextId, nextSample, ops, pc, rs, gh>>

\* pull(): the next node in order is opened, or the tree is exhausted.
ReaderPull(r) ==
    /\ pc = "reads"
    /\ loc[r].at = "pull"
    /\ LET next == successor(nd, loc[r].cur)
       IN  IF next = 0
           THEN /\ loc' = [loc EXCEPT ![r].at = "done"]
                /\ nd' = nd
           ELSE LET o == readerOpen(nd, loc[r], next)
                IN  nd' = o.nd /\ loc' = [loc EXCEPT ![r] = o.x]
    /\ UNCHANGED <<root, store, nextId, nextSample, ops, pc, rs, gh>>

NextReads ==
    \/ \E r \in Readers, a \in 0 .. MaxPos, b \in 0 .. MaxPos : ReaderStart(r, a, b)
    \/ \E r \in Readers : ReaderFetch(r)
    \/ \E r \in Readers : ReaderDecoded(r)
    \/ \E r \in Readers : ReaderClose(r)
    \/ \E r \in Readers : ReaderEnqueue(r)
    \/ \E r \in Readers : ReaderPull(r)

SpecReads == InitReads /\ [][NextReads]_vars

\* ------------------------------------------------- overwrite in a filter pass
\* overwrite(data, {start, end, closeTwice}) on a stored track whose segments
\* are each held open by `held` earlier keepOpen readers (the input stream of
\* a filter holds every segment it has read), with and without closeTwice,
\* and with data shorter than, as long as, or longer than the range.  The
\* track's samples are numbered from 101, the new data from 1.
passStore(lens) ==
    [partStore(lens) EXCEPT
        !.wv = [i \in Ids |-> IF i <= Len(lens)
                              THEN encode(frameFrom(100 + firstOf(lens, i), lens[i]))
                              ELSE encode(<<>>)]]

\* A segment as `held` openRaw calls without a close leave it.
heldOpen(x, blob, held) ==
    IF held = 0 THEN x
    ELSE [x EXCEPT !.readers = held, !.hasRaw = TRUE, !.raw = decode(blob)]

InitPass ==
    \E k \in 0 .. MaxParts : \E lens \in [1 .. k -> 1 .. Capacity] :
      \E held \in 0 .. MaxHeld :
        LET B == balanceArray(partNodes(lens), [i \in 1 .. k |-> i])
            N == [i \in Ids |-> IF i <= k
                                THEN heldOpen(B.N[i], passStore(lens).wv[i], held)
                                ELSE B.N[i]]
        IN  /\ nd = N
            /\ root = [t \in Tracks |-> IF t = 1 THEN B.root ELSE 0]
            /\ store = passStore(lens)
            /\ nextId = k + 1
            /\ nextSample = 1
            /\ ops = 0
            /\ pc = "idle"
            /\ loc = NoLocals
            /\ rs = NoStream
            /\ gh = [model |-> [t \in Tracks |-> <<>>],
                     edited |-> [t \in Tracks |-> FALSE],
                     pre |-> NoPre, preR |-> NoPre, out |-> <<>>,
                     done |-> [op |-> "none"], held |-> held]

\* The one overwrite of the pass is called.
PassStart(a, b, closeTwice) ==
    /\ ops = 0
    /\ a <= b /\ b <= subtreeDuration(nd, root[1])
    /\ OverwriteStart(a, b, closeTwice)

NextPass ==
    \/ \E a, b \in 0 .. MaxSamples, closeTwice \in BOOLEAN : PassStart(a, b, closeTwice)
    \/ OverwriteResample
    \/ OverwriteOut
    \/ OverwriteIn
    \/ OverwriteClose
    \/ OverwriteDrain
    \/ OverwriteDrainIn
    \/ OverwriteSave
    \/ StreamStart
    \/ StreamPull

SpecPass == InitPass /\ [][NextPass]_vars

\* ------------------------------------------- selectionFilter's worker loop
\* The selected tracks are 1 .. n; each gets one pipeline, filterThread(sel,
\* idx), which is "active" from its call to its settling ("done" when it
\* fulfils, "failed" when it rejects).  loc holds the loop's locals: threads,
\* toRun and running (the tracks whose promises are in the array); and, as
\* history, n (tracks.length) and starts (the calls of filterThread so far
\* for each track).
Pipelines == 1 .. MaxTracks

InitFilter ==
    /\ nd = [i \in Ids |-> NewAudioData]
    /\ root = [t \in Tracks |-> 0]
    /\ store = EmptyStore
    /\ nextId = 1
    /\ nextSample = 1
    /\ ops = 0
    /\ pc = "f_loop"
    /\ \E n \in 1 .. MaxTracks, threads \in 1 .. MaxThreads :
          loc = [threads |-> threads,
                 toRun   |-> [i \in 1 .. n |-> i],
                 running |-> <<>>,
                 status  |-> [p \in Pipelines |-> "idle"],
                 n       |-> n,
                 starts  |-> [p \in Pipelines |-> 0]]
    /\ rs = NoStream
    /\ gh = InitHistory

\* How many pipelines the inner while loop starts.
startCountEager(running, toRun, threads) ==
    min(threads + 1 - Len(running), Len(toRun))

startCount(running, toRun, threads) ==
    IF Len(running) < threads THEN min(threads - Len(running), Len(toRun)) ELSE 0

\* while (toRun.length): the inner loop starts pipelines, then the loop
\* awaits Promise.race; with toRun empty the loop is left for Promise.all.
FilterFill ==
    /\ pc = "f_loop"
    /\ IF Len(loc.toRun) = 0
       THEN pc' = "f_all" /\ loc' = loc
       ELSE LET k == startCount(loc.running, loc.toRun, loc.threads)
                started == SubSeq(loc.toRun, 1, k)
            IN  /\ loc' = [loc EXCEPT
                            !.toRun = SubSeq(loc.toRun, k + 1, Len(loc.toRun)),
                            !.running = loc.running \o started,
                            !.status = [p \in Pipelines |->
                                          IF \E i \in 1 .. k : started[i] = p
                                          THEN "active" ELSE loc.status[p]],
                            !.starts = [p \in Pipelines |->
                                          loc.starts[p] +
                                          Cardinality({i \in 1 .. k : started[i] = p})]]
                /\ pc' = "f_race"
    /\ UNCHANGED <<nd, root, store, nextId, nextSample, ops, rs, gh>>

\* A pipeline settles: filterThread returns, or throws.
PipelineSettles(p, ok) ==
    /\ pc \in {"f_loop", "f_race", "f_all", "f_thrown"}
    /\ loc.status[p] = "active"
    /\ loc' = [loc EXCEPT !.status[p] = IF ok THEN "done" ELSE "failed"]
    /\ UNCHANGED <<nd, root, store, nextId, nextSample, ops, pc, rs, gh>>

\* fin = await Promise.race(...); running.splice(fin, 1).  The race settles
\* with one of the settled promises of the array; a rejected one makes
\* selectionFilter throw.
FilterRace ==
    /\ pc = "f_race"
    /\ \E fin \in 1 .. Len(loc.running) :
          /\ loc.status[loc.running[fin]] \in {"done", "failed"}
          /\ IF loc.status[loc.running[fin]] = "done"
             THEN /\ loc' = [loc EXCEPT !.running = spliceOut(loc.running, fin)]
                  /\ pc' = "f_loop"
             ELSE /\ loc' = loc
                  /\ pc' = "f_thrown"
    /\ UNCHANGED <<nd, root, store, nextId, nextSample, ops, rs, gh>>

\* The last await as it would be if it did not wait.
FilterAllNoWait ==
    /\ pc = "f_all"
    /\ pc' = "f_done"
    /\ UNCHANGED <<nd, root, store, nextId, nextSample, ops, loc, rs, gh>>

\* await Promise.all(running)
FilterAll ==
    /\ pc = "f_all"
    /\ \/ /\ \A i \in 1 .. Len(loc.running) : loc.status[loc.running[i]] = "done"
          /\ pc' = "f_done"
       \/ /\ \E i \in 1 .. Len(loc.running) : loc.status[loc.running[i]] = "failed"
          /\ pc' = "f_thrown"
    /\ UNCHANGED <<nd, root, store, nextId, nextSample, ops, loc, rs, gh>>

NextFilter ==
    \/ FilterFill
    \/ \E p \in Pipelines, ok \in BOOLEAN : PipelineSettles(p, ok)
    \/ FilterRace
    \/ FilterAll

SpecFilter == InitFilter /\ [][NextFilter]_vars

\* --------------------------------------------------------------- play()
\* The project's tracks are 1 .. n; empty[i]: the stream of track i, read
\* from the selection's start, is over at its first read (the start lies at
\* or past the track's end).  loc holds play's locals and the module's
\* stopPlayback: "null", "noop" (the placeholder set while loading) or
\* "stop" (the closure that ends playback); src[i] is the source of track i:
\* "none" (not made), "useless" (the bare buffer source createSource returns
\* for a stream that is over), "ready" (a player node, fed its first
\* frames), "playing" (connected), "ended" (the player has posted "done");
\* stopped counts the runs of the closure.  createSource reads from the
\* reader play hands it.
InitPlay ==
    /\ nd = [i \in Ids |-> NewAudioData]
    /\ root = [t \in Tracks |-> 0]
    /\ store = EmptyStore
    /\ nextId = 1
    /\ nextSample = 1
    /\ ops = 0
    /\ pc = "p_idle"
    /\ \E n \in 0 .. MaxTracks : \E empty \in [1 .. n -> BOOLEAN] :
          loc = [n |-> n, empty |-> empty, stopPlayback |-> "null",
                 playing |-> 0, i |-> 0,
                 src |-> [p \in Pipelines |-> "none"], stopped |-> 0]
    /\ rs = NoStream
    /\ gh = InitHistory

\* play() up to the loop over the streams: the placeholder, the readers,
\* playing = streams.length.
PlayStart ==
    /\ pc = "p_idle"
    /\ loc.stopPlayback = "null"
    /\ loc' = [loc EXCEPT !.stopPlayback = "noop", !.playing = loc.n, !.i = 1]
    /\ pc' = "p_sources"
    /\ UNCHANGED <<nd, root, store, nextId, nextSample, ops, rs, gh>>

\* sources.push(await audio.createSource(stream, {end})): the first read,
\* and the bare return when it is done; else the player node.
PlaySource ==
    /\ pc = "p_sources"
    /\ loc.i <= loc.n
    /\ loc' = [loc EXCEPT !.src[loc.i] = IF loc.empty[loc.i] THEN "useless"
                                         ELSE "ready",
                          !.i = loc.i + 1]
    /\ UNCHANGED <<nd, root, store, nextId, nextSample, ops, pc, rs, gh>>

\* stopPlayback = () => {...}, then the sources are connected.
PlayConnect ==
    /\ pc = "p_sources"
    /\ loc.i > loc.n
    /\ loc' = [loc EXCEPT !.stopPlayback = "stop",
                          !.src = [p \in Pipelines |->
                                     IF loc.src[p] = "ready" THEN "playing"
                                     ELSE loc.src[p]]]
    /\ pc' = "p_playing"
    /\ UNCHANGED <<nd, root, store, nextId, nextSample, ops, rs, gh>>

\* end(): if (playing) { playing--; if (!playing && stopPlayback)
\* stopPlayback(); }, the closure setting playing = 0 and stopPlayback = null.
end(l) ==
    IF l.playing = 0 THEN l
    ELSE IF l.playing - 1 # 0 \/ l.stopPlayback = "null"
    THEN [l EXCEPT !.playing = l.playing - 1]
    ELSE IF l.stopPlayback = "stop"
    THEN [l EXCEPT !.playing = 0, !.stopPlayback = "null",
                   !.stopped = l.stopped + 1]
    ELSE [l EXCEPT !.playing = l.playing - 1]

\* The player of track p has played its last frame and posts "done":
\* port.onmessage calls opts.end().
SourceDone(p) ==
    /\ pc = "p_playing"
    /\ loc.src[p] = "playing"
    /\ loc' = end([loc EXCEPT !.src[p] = "ended"])
    /\ UNCHANGED <<nd, root, store, nextId, nextSample, ops, pc, rs, gh>>

NextPlay ==
    \/ PlayStart
    \/ PlaySource
    \/ PlayConnect
    \/ \E p \in Pipelines : SourceDone(p)

SpecPlay == InitPlay /\ [][NextPlay]_vars

\* ==================================================================== claims
\* Total len of the subtree rooted at n, by its in-order flattening.
flatLen(N, n) == sum(lensOf(N, fillArray(N, n)))

\* The nodes reachable from the roots of the tracks.
reachable == UNION {{fillArray(nd, root[t])[i] : i \in 1 .. Len(fillArray(nd, root[t]))} :
                    t \in Tracks}

\* The range of the operation that returned last lies within the track as it
\* was when the operation started.
doneInRange == gh.done.start <= gh.done.end /\ gh.done.end <= gh.pre.count

\* C1: a reader of stream() over the whole of a track that was built from
\* empty by append alone receives exactly the appended samples, in order,
\* whatever the frames were.
C1_RoundTrip ==
    (gh.done.op = "read" /\ gh.done.dflt /\ ~gh.edited[gh.done.t])
        => gh.out = gh.model[gh.done.t]

\* C1 witness: such a read has returned all MaxSamples samples, which lie in
\* more than one segment.
C1_Witness ==
    /\ gh.done.op = "read" /\ gh.done.dflt /\ ~gh.edited[1]
    /\ Len(gh.out) = MaxSamples
    /\ Len(fillArray(nd, root[1])) >= 2

\* C2: when replace(a, b, R) with 0 <= a <= b <= T returns, the track holds
\* original[0,a), then R's samples, then original[b,T), and each node's len
\* is the length of the buffer openRaw gives for it.
C2_ReplaceSplices ==
    (gh.done.op = "replace" /\ doneInRange)
        => /\ trackSamples(nd, store, root[1]) =
                 splice(gh.pre.samples, gh.done.start, gh.done.end, gh.preR.samples)
           /\ \A n \in reachable : nd[n].len = Len(nodeBuffer(nd, store, n))

\* C2 witness: a replace that cut inside the track and put a non-empty
\* replacement there has returned.
C2_Witness ==
    /\ gh.done.op = "replace" /\ doneInRange
    /\ gh.done.R # 0 /\ gh.preR.count > 0
    /\ 0 < gh.done.start /\ gh.done.start < gh.done.end
    /\ gh.done.end < gh.pre.count

\* C3: when replace(a, b, null) with 0 <= a <= b <= T returns, the track's
\* sample count is b - a less than before.
C3_ClipCount ==
    (gh.done.op = "replace" /\ doneInRange /\ gh.done.R = 0)
        => subtreeDuration(nd, root[1]) = gh.pre.count - (gh.done.end - gh.done.start)

\* C3 witness: a clip of a non-empty range that spans two segments has
\* returned.
C3_Witness ==
    /\ gh.done.op = "replace" /\ doneInRange /\ gh.done.R = 0
    /\ gh.done.end - gh.done.start > 1
    /\ gh.done.start > 0
    /\ Len(gh.pre.ids) >= 2

\* C4: when replace(a, a, R) with a <= T and R a track of d samples returns,
\* the sample count is d more than before and every sample the track held is
\* still there, in order, around the inserted ones; and a call that threw
\* instead of returning has left the count and the samples as they were.
C4_InsertCount ==
    /\ (gh.done.op = "replace" /\ doneInRange /\ gh.done.R # 0
            /\ gh.done.start = gh.done.end)
        => LET now == trackSamples(nd, store, root[1])
               a   == gh.done.start
               d   == gh.preR.count
           IN  /\ subtreeDuration(nd, root[1]) = gh.pre.count + d
               /\ Len(now) = gh.pre.count + d
               /\ SubSeq(now, 1, a) = SubSeq(gh.pre.samples, 1, a)
               /\ SubSeq(now, a + d + 1, Len(now)) =
                      SubSeq(gh.pre.samples, a + 1, gh.pre.count)
    /\ (pc = "error" /\ loc.op = "replace" /\ loc.R # 0
            /\ loc.start = loc.end /\ loc.end <= gh.pre.count)
        => /\ gh.preR.count = 0
           /\ subtreeDuration(nd, root[1]) = gh.pre.count
           /\ trackSamples(nd, store, root[1]) = gh.pre.samples

\* C4 witness: an insertion of a non-empty replacement inside a segment has
\* returned.
C4_Witness ==
    /\ gh.done.op = "replace" /\ doneInRange /\ gh.done.R # 0
    /\ gh.done.start = gh.done.end
    /\ gh.preR.count > 0
    /\ 0 < gh.done.start /\ gh.done.start < gh.pre.count

\* C5: from the start of an overwrite to its return the track's nodes, their
\* order and their lens are what they were before, and so is the sample count.
C5_OverwriteKeepsLens ==
    (loc.op = "overwrite" \/ gh.done.op = "overwrite")
        => /\ fillArray(nd, root[1]) = gh.pre.ids
           /\ lensOf(nd, fillArray(nd, root[1])) = gh.pre.lens
           /\ subtreeDuration(nd, root[1]) = gh.pre.count

\* C5 witness: an overwrite whose new data was longer than its range, on a
\* track of several segments, has returned.
C5_Witness ==
    /\ gh.done.op = "overwrite"
    /\ Len(gh.out) > gh.done.end - gh.done.start
    /\ gh.done.end > gh.done.start
    /\ Len(gh.pre.ids) >= 2

\* The samples an overwrite of [a, b) with the new samples is meant to leave.
overwritten(orig, a, b, new) ==
    LET m == min(Len(new), b - a)
    IN  SubSeq(orig, 1, a) \o SubSeq(new, 1, m) \o SubSeq(orig, a + m + 1, Len(orig))

\* C6: when overwrite of [a, b), 0 <= a <= b <= T, with n new samples
\* returns, positions a .. a+min(n, b-a)-1 hold the first min(n, b-a) new
\* samples in order and every other sample is what it was.
C6_OverwriteContent ==
    (gh.done.op = "overwrite" /\ doneInRange)
        => trackSamples(nd, store, root[1]) =
               overwritten(gh.pre.samples, gh.done.start, gh.done.end, gh.out)

\* C6 witness: an overwrite with fewer new samples than its range, the range
\* crossing a segment boundary, has returned.
C6_Witness ==
    /\ gh.done.op = "overwrite" /\ doneInRange
    /\ 0 < Len(gh.out) /\ Len(gh.out) < gh.done.end - gh.done.start
    /\ gh.done.start = 1
    /\ gh.pre.lens[1] = Capacity

\* The samples before node arr[k] in the flattening arr.
before(N, arr, k) == sum(lensOf(N, SubSeq(arr, 1, k - 1)))

\* The index of node n in arr.
indexOf(arr, n) == CHOOSE k \in 1 .. Len(arr) : arr[k] = n

findRight(N, r, offset) ==
    LET f   == find(N, r, offset)
        arr == fillArray(N, r)
    IN  IF offset < flatLen(N, r)
        THEN /\ f.found
             /\ 0 <= f.offset /\ f.offset < N[f.node].len
             /\ \E k \in 1 .. Len(arr) : arr[k] = f.node
             /\ before(N, arr, indexOf(arr, f.node)) + f.offset = offset
        ELSE ~f.found

\* C7: with no operation running, find(offset) on either track gives, for
\* every offset below the sample count, the node and the offset within it
\* that the flattened sequence has at that position, and not-found for every
\* offset from the sample count on.
C7_Find ==
    pc = "idle" =>
        \A t \in Tracks : \A offset \in 0 .. MaxSamples + 1 :
            findRight(nd, root[t], offset)

\* C7 witness: a quiescent tree of three or more nodes whose root has both
\* children.
C7_Witness ==
    /\ pc = "idle"
    /\ root[1] # 0
    /\ nd[root[1]].left # 0 /\ nd[root[1]].right # 0
    /\ flatLen(nd, root[1]) >= 3

\* C8: with no operation running, every node's pos is the total len of its
\* left subtree, and subtreeDuration of every node is the total len of the
\* in-order flattening of its subtree.
C8_PosInvariant ==
    pc = "idle" =>
        \A n \in reachable :
            /\ nd[n].pos = flatLen(nd, nd[n].left)
            /\ subtreeDuration(nd, n) = flatLen(nd, n)

\* C8 witness: a quiescent tree, left by a replace, in which a node with a
\* left child has pos > 0.
C8_Witness ==
    /\ pc = "idle"
    /\ gh.done.op = "replace"
    /\ \E n \in reachable : nd[n].left # 0 /\ nd[n].pos > 0

\* The callers whose openRaw is running and has not found the buffer.
opening == {c \in Callers : loc[c].at \in {"load", "decode", "wait"}}

\* C9: whatever the shape of the tree, rebalance() leaves the in-order
\* sequence of its nodes and each node's len as they were.
C9_RebalanceKeepsOrder ==
    gh.done.op = "rebalance"
        => /\ fillArray(nd, root[1]) = gh.pre.ids
           /\ lensOf(nd, fillArray(nd, root[1])) = gh.pre.lens

\* C9 witness: a tree of MaxTreeNodes nodes with a left child somewhere and
\* an empty node has been rebalanced, and another node became the root.
C9_Witness ==
    /\ gh.done.op = "rebalance"
    /\ Len(gh.pre.ids) = MaxTreeNodes
    /\ root[1] # gh.done.root
    /\ gh.pre.ids[1] # 1
    /\ \E i, j \in 1 .. MaxTreeNodes : gh.pre.lens[i] = 0 /\ gh.pre.lens[j] = MaxLen

\* C10: on a segment whose compressed bytes are stored, the openRaw calls
\* that overlap while the buffer is not resident all belong to one flight,
\* only one of them loads and decodes, no flight decodes twice, and each
\* caller a flight served holds the buffer that flight's decode produced.
C10_SingleFlight ==
    1 \in store.wvKeys =>
        /\ \A c, d \in opening : loc[c].flight = loc[d].flight
        /\ Cardinality({c \in opening : loc[c].at # "wait"}) <= 1
        /\ opening # {} => \E c \in opening : loc[c].at # "wait"
        /\ \A f \in Flights : gh.decodes[f] <= 1
        /\ \A c \in Callers :
              (loc[c].at = "open" /\ loc[c].flight > 0)
                  => /\ gh.decodes[loc[c].flight] = 1
                     /\ loc[c].got = gh.bufs[loc[c].flight]
                     /\ loc[c].got # 0

\* C10 witness: three callers opened during one flight and hold its buffer,
\* and it was not the first flight.
C10_Witness ==
    /\ 1 \in store.wvKeys
    /\ \A c \in Callers : loc[c].at = "open" /\ loc[c].flight = gh.flights
    /\ gh.flights >= 1
    /\ nd[1].readers = MaxCallers

\* The callers whose openRaw has returned and who have not called closeRaw.
holders == {c \in Callers : loc[c].at = "open"}

\* C11: in every state of the cache entry, suspension points of openRaw and
\* closeRaw included, the raw buffer is non-null iff the reader count is
\* above zero or a decompression is in flight.  Read in the code's favour:
\* while rawPromise is set (the buffer is still being made) nothing is asked.
C11_RawIffReaders ==
    ~nd[1].rawPromise => (nd[1].hasRaw <=> nd[1].readers > 0)

\* C12: under every interleaving of openRaw and closeRaw, the callers that
\* have opened the segment and not closed it hold one and the same buffer,
\* which is the node's buffer (the one the final flush compresses).
C12_SharedBuffer ==
    \A c \in holders :
        /\ \A d \in holders : loc[c].got = loc[d].got
        /\ loc[c].ret = "buf" => (nd[1].hasRaw /\ loc[c].got = gh.buf)

\* A step in which some caller's closeRaw begins.
closeBegins == \E c \in Callers : loc[c].at = "open" /\ loc'[c].at # "open"

\* C14: a closeRaw that leaves the count above zero writes nothing; when
\* the buffer is discarded after a modified close, the store holds its
\* valid samples and its len; when it is discarded with nothing modified
\* the store is as it was; and no closeRaw that has to flush fails to.
C14_LastCloserFlushes ==
    [][/\ (closeBegins /\ nd'[1].readers > 0) => store' = store
       /\ (nd[1].hasRaw /\ ~nd'[1].hasRaw /\ nd[1].rawModified /\ nd[1].len # 0)
            => /\ 1 \in store'.wvKeys
               /\ decode(store'.wv[1]) = subarray(nd[1].raw, 0, nd[1].len)
               /\ store'.dataLen[1] = nd[1].len
       /\ (nd[1].hasRaw /\ ~nd'[1].hasRaw /\ ~nd[1].rawModified) => store' = store
       /\ \A c \in Callers : loc'[c].at # "threw"]_vars

\* C15: openRaw on a segment whose compressed bytes are not in the store
\* returns a raw buffer (of length zero).
C15_MissingIsEmpty ==
    1 \notin store.wvKeys =>
        \A c \in holders : loc[c].ret = "buf" /\ nd[1].hasRaw /\ nd[1].raw = <<>>

\* C16: a closeRaw on a segment whose reader count is already zero does not
\* return normally and does not write to the store.
C16_OverCloseFatal == ~gh.silent /\ ~gh.wrote

\* The pipelines started and not yet settled.
activePipelines == {p \in Pipelines : loc.status[p] = "active"}

\* C17: during selectionFilter the pipelines started and not yet completed
\* never outnumber the worker budget, however many tracks are selected.
C17_WorkerBudget ==
    /\ Cardinality(activePipelines) <= loc.threads
    /\ Len(loc.running) <= loc.threads

\* C17 witness: the budget is used up by active pipelines while tracks are
\* still waiting, after a finished pipeline has made room once.
C17_Witness ==
    /\ Cardinality(activePipelines) = loc.threads
    /\ Len(loc.toRun) > 0
    /\ \E p \in Pipelines : loc.status[p] = "done"
    /\ loc.threads >= 2

\* The lens an append of n samples onto an empty track should leave, in order.
ceilDiv(n, c) == (n + c - 1) \div c

fullThenRest(n, c) ==
    [i \in 1 .. ceilDiv(n, c) |-> IF i < ceilDiv(n, c) THEN c ELSE n - c * (ceilDiv(n, c) - 1)]

\* The samples the append that returned last took from its source.
appended == Len(gh.model[gh.done.t]) - gh.pre.count

\* C19: when an append onto an empty track returns, having read n samples
\* in frames of any sizes, the track has ceil(n / Capacity) segments, their
\* lens in order are Capacity, ..., Capacity and then the rest, and
\* subtreeDuration of the root is n.
C19_AppendSegments ==
    (gh.done.op = "append" /\ gh.pre.ids = <<>>)
        => /\ lensOf(nd, fillArray(nd, root[gh.done.t])) = fullThenRest(appended, Capacity)
           /\ Len(fillArray(nd, root[gh.done.t])) = ceilDiv(appended, Capacity)
           /\ subtreeDuration(nd, root[gh.done.t]) = appended

\* C19 witness: such an append has returned with a full segment followed by
\* a partly filled one, after reading a frame larger than a segment.
C19_Witness ==
    /\ gh.done.op = "append" /\ gh.pre.ids = <<>>
    /\ appended = Capacity + 1
    /\ lensOf(nd, fillArray(nd, root[gh.done.t])) = <<Capacity, 1>>
    /\ gh.model[gh.done.t][1] + Capacity + 1 = nextSample
    /\ gh.done.chunk # <<>> /\ Len(gh.done.chunk) < Capacity

\* The links of the tracks' trees are mutually consistent.
linksConsistent ==
    /\ \A t \in Tracks : root[t] # 0 => nd[root[t]].parent = 0
    /\ \A n \in reachable :
          /\ nd[n].left # 0 => nd[nd[n].left].parent = n
          /\ nd[n].right # 0 => nd[nd[n].right].parent = n

\* C18: when a store operation fails at a suspension point of append,
\* overwrite or replace, the operation ends with the failure and the tree
\* left behind has consistent links and every pos equal to the total len of
\* the node's left subtree, so that subtreeDuration is right on it.
C18_FailureLeavesValidTree ==
    pc = "failed" =>
        /\ linksConsistent
        /\ \A n \in reachable :
              /\ nd[n].pos = flatLen(nd, nd[n].left)
              /\ subtreeDuration(nd, n) = flatLen(nd, n)

\* What a read of [a, b) should give on the track as it was stored: the
\* samples at positions a .. min(b, T) - 1.
expected(a, b) == SubSeq(gh.pre.samples, a + 1, min(b, gh.pre.count))

\* The readers whose stream has ended.
finished == {r \in Readers : loc[r].at = "done"}

\* C13: however the reads of two stream() consumers without keepOpen are
\* interleaved on a track no edit is running on, each read of a range
\* [start, end) gives exactly that range's samples in order, and once the
\* reads have finished every segment has reader count 0, no buffer is
\* resident and nothing was written to the store.
C13_ConcurrentReads ==
    /\ \A r \in Readers : loc[r].at # "errored"
    /\ \A r \in finished :
          loc[r].start <= loc[r].end => loc[r].out = expected(loc[r].start, loc[r].end)
    /\ (finished # {} /\ \A r \in Readers : loc[r].at \in {"out", "done"})
          => /\ \A n \in reachable : nd[n].readers = 0 /\ ~nd[n].hasRaw
             /\ store = gh.store0
             /\ ~gh.wrote

\* C13 witness: two reads of overlapping ranges that span two segments have
\* both finished, one of them having awaited the other's decompression.
C13_Witness ==
    /\ finished = Readers
    /\ \E r \in Readers : loc[r].waited
    /\ loc[1].start < loc[2].start /\ loc[2].start < loc[1].end
    /\ \A r \in Readers : loc[r].frames >= 2 /\ Len(loc[r].out) >= 2
    /\ loc[1].out # loc[2].out

\* C20: a stream(start, end) that has ended on a quiescent track of T
\* samples has given exactly the samples at positions start .. min(end, T) - 1,
\* max(0, min(end, T) - start) of them, and no frame at all when start >= T
\* or the tree is empty.
C20_StreamRange ==
    \A r \in finished :
        /\ loc[r].out = expected(loc[r].start, loc[r].end)
        /\ (loc[r].start >= gh.pre.count \/ root[1] = 0) => loc[r].frames = 0

\* C21: when an append returns, the segments the track had before the call
\* are the first segments of the track, in the same order, each with the
\* len and the samples it had; what was appended lies after them.
C21_AppendKeepsOld ==
    gh.done.op = "append"
        => LET now == fillArray(nd, root[gh.done.t])
           IN  /\ Len(now) >= Len(gh.pre.ids)
               /\ SubSeq(now, 1, Len(gh.pre.ids)) = gh.pre.ids
               /\ lensOf(nd, gh.pre.ids) = gh.pre.lens
               /\ \A i \in 1 .. Len(gh.pre.ids) :
                     Len(nodeSamples(nd, store, gh.pre.ids[i])) = gh.pre.lens[i]
               /\ concatAll([i \in 1 .. Len(gh.pre.ids) |->
                                nodeSamples(nd, store, gh.pre.ids[i])]) = gh.pre.samples

\* C21 witness: an append has returned on a track whose last segment was
\* partly full, and it added a segment after it.
C21_Witness ==
    /\ gh.done.op = "append"
    /\ gh.pre.ids # <<>>
    /\ gh.pre.lens[Len(gh.pre.lens)] < Capacity
    /\ gh.pre.lens[Len(gh.pre.lens)] > 0
    /\ Len(fillArray(nd, root[gh.done.t])) > Len(gh.pre.ids)

\* The segments of the track of the operation that returned last which the
\* track did not have when the operation started.
created ==
    {n \in Ids : /\ \E i \in 1 .. Len(fillArray(nd, root[gh.done.t])) :
                        fillArray(nd, root[gh.done.t])[i] = n
                 /\ \A i \in 1 .. Len(gh.pre.ids) : gh.pre.ids[i] # n}

\* C22: when an append returns, whichever way its fill loop ended, every
\* segment it created has reader count 0, no resident buffer, and its len
\* in the store equal to its len in memory.
C22_AppendClosesAll ==
    gh.done.op = "append"
        => \A n \in created :
              /\ nd[n].readers = 0
              /\ ~nd[n].hasRaw
              /\ ~nd[n].rawModified
              /\ n \in store.dataKeys
              /\ store.dataLen[n] = nd[n].len

\* C22 witness: an append has returned that overflowed one segment, pushed
\* the rest back, filled a second segment exactly with its last frame, and
\* then found the stream exhausted.
C22_Witness ==
    /\ gh.done.op = "append"
    /\ Cardinality(created) = 2
    /\ \A n \in created : nd[n].len = Capacity
    /\ Len(gh.done.chunk) = 1

\* A step in which the stream's start() or pull() produced a frame.
emits == /\ rs.st \in {"starting", "open"}
         /\ rs'.st \in {"open", "closed"}
         /\ Len(rs'.queue) = Len(rs.queue) + 1

\* C23: a start() or pull() of a stream without keepOpen that produces a
\* frame leaves the reader count of every segment as it was; with keepOpen
\* it raises the count of the segment of the frame by one and no other.
C23_StreamReaderCounts ==
    [][emits =>
          \A n \in Ids :
              nd'[n].readers =
                  IF rs.keepOpen /\ n = rs'.queue[Len(rs'.queue)].node
                     /\ nd[n].readers # Infinity
                  THEN nd[n].readers + 1 ELSE nd[n].readers]_vars

\* C23 witness: a keepOpen stream has produced the frame of its second
\* segment, which it holds open.
C23_Witness ==
    /\ rs.st \in {"open", "closed"}
    /\ rs.keepOpen
    /\ rs.queue # <<>>
    /\ rs.queue[Len(rs.queue)].node = rs.cur
    /\ nd[rs.cur].readers = 1 /\ nd[rs.cur].hasRaw
    /\ \E n \in reachable : n # rs.cur /\ nd[n].readers = 1

\* The first position of segment i of the track as it was when the running
\* or last operation started.
preFirst(i) == sum(SubSeq(gh.pre.lens, 1, i - 1))

\* The segments a stream over [a, b) of that track yields a frame of: those
\* that overlap the range, or the one that holds position a when a = b.
yielded(a, b) ==
    {gh.pre.ids[i] : i \in {j \in 1 .. Len(gh.pre.ids) :
                              /\ preFirst(j) + gh.pre.lens[j] > a
                              /\ (preFirst(j) < b \/ preFirst(j) <= a)}}

\* The reader count of a segment after `closes` closeRaw calls on top of
\* `opens` openRaw calls, from a count of r.
afterCloses(r, opens, closes) ==
    IF r + opens - closes < 0 THEN 0 ELSE r + opens - closes

\* C24: when overwrite returns, every segment its keepOpen stream opened has
\* been closed once by it, or twice with closeTwice, whether the data or the
\* target range ended first, and no other segment was touched: the reader
\* counts are what one open and that many closes leave.
C24_OverwriteCloses ==
    gh.done.op = "overwrite"
        => \A n \in Ids :
              nd[n].readers =
                  IF n \in yielded(gh.done.start, gh.done.end)
                  THEN afterCloses(gh.held, 1, IF gh.done.closeTwice THEN 2 ELSE 1)
                  ELSE IF n \in reachable THEN gh.held ELSE 0

\* C24 witness: an overwrite with closeTwice over two segments held open by
\* two earlier readers has returned, its data having ended before the range.
C24_Witness ==
    /\ gh.done.op = "overwrite"
    /\ gh.done.closeTwice
    /\ gh.held = 2
    /\ Cardinality(yielded(gh.done.start, gh.done.end)) = 2
    /\ Len(gh.out) < gh.done.end - gh.done.start
    /\ Len(gh.out) > 0
    /\ \A n \in yielded(gh.done.start, gh.done.end) : nd[n].readers = 1

\* The step closes a segment overwrite wrote nothing into, the data being
\* exhausted: the one at hand when the data stream reports its end, or one
\* the drain of the target stream takes.  untouchedNode is that segment.
closesUntouched ==
    \/ pc = "o_in" /\ pc' = "o_drain" /\ loc.curOutPos = 0
    \/ pc = "o_drain" /\ pc' = "o_drain" /\ rs'.queue # rs.queue

untouchedNode == IF pc = "o_in" THEN loc.curOutNode ELSE Head(rs.queue).node

\* C25: a segment into which overwrite wrote no sample because the data was
\* exhausted is closed with modified = false (and once more with
\* closeTwice): the step leaves the segments and the store as those
\* unmodified closes leave them.
C25_UntouchedClosedUnmodified ==
    [][closesUntouched =>
          LET W1 == closeRaw([nd |-> nd, store |-> store], untouchedNode, FALSE)
              W2 == IF loc.closeTwice THEN closeRaw(W1, untouchedNode, FALSE) ELSE W1
          IN  nd' = W2.nd /\ store' = W2.store]_vars

preRSamples(i) ==
    SubSeq(gh.preR.samples, sum(SubSeq(gh.preR.lens, 1, i - 1)) + 1,
           sum(SubSeq(gh.preR.lens, 1, i)))

\* C27: when replace(a, b, R) returns, R's track record is gone from the
\* store and R has no root, and every non-empty segment R had is in the
\* target track's in-order sequence under the same id, with its record (the
\* same len) and its compressed bytes (the same samples) still in the store.
C27_ReplacementAdopted ==
    (gh.done.op = "replace" /\ gh.done.R # 0)
        => /\ gh.done.R \notin store.trackKeys
           /\ root[gh.done.R] = 0
           /\ \A i \in 1 .. Len(gh.preR.ids) :
                 gh.preR.lens[i] # 0 =>
                    LET n == gh.preR.ids[i]
                    IN  /\ \E j \in 1 .. Len(fillArray(nd, root[1])) :
                              fillArray(nd, root[1])[j] = n
                        /\ nd[n].len = gh.preR.lens[i]
                        /\ n \in store.dataKeys
                        /\ store.dataLen[n] = gh.preR.lens[i]
                        /\ n \in store.wvKeys
                        /\ decode(store.wv[n]) = preRSamples(i)

\* C27 witness: a replace has returned whose replacement track had two
\* segments and a stored track record.
C27_Witness ==
    /\ gh.done.op = "replace" /\ gh.done.R # 0
    /\ Len(gh.preR.ids) = 2
    /\ gh.preR.count = Capacity + 1
    /\ Len(fillArray(nd, root[1])) >= 3


\* C28: when replace(a, b, R) with a at or past the track's sample count
\* returns, no sample the track held is removed and R's samples are at the
\* end: the track holds what it held, followed by R.
C28_ReplacePastEnd ==
    (gh.done.op = "replace" /\ gh.done.start >= gh.pre.count)
        => /\ trackSamples(nd, store, root[1]) =
                  gh.pre.samples \o (IF gh.done.R = 0 THEN <<>> ELSE gh.preR.samples)
           /\ subtreeDuration(nd, root[1]) =
                  gh.pre.count + (IF gh.done.R = 0 THEN 0 ELSE gh.preR.count)

\* C28 witness: a replace that started past the end of a track of two or more
\* segments, with a range that is not empty and a replacement that is not
\* empty, has returned.
C28_Witness ==
    /\ gh.done.op = "replace" /\ gh.done.R # 0
    /\ gh.done.start >= gh.pre.count /\ gh.done.end > gh.done.start
    /\ Len(gh.pre.ids) >= 2 /\ gh.preR.count > 0


RECURSIVE height(_, _)
\* The number of nodes on the longest path from n down to a leaf.
height(N, n) ==
    IF n = 0 THEN 0
    ELSE LET l == height(N, N[n].left)
             r == height(N, N[n].right)
         IN  1 + (IF l >= r THEN l ELSE r)

RECURSIVE log2floor(_)
\* floor(log2(n)) for n >= 1.
log2floor(n) == IF n <= 1 THEN 0 ELSE 1 + log2floor(n \div 2)

\* C29: the tree balanceArray builds from n >= 1 segments is at most
\* floor(log2(n)) + 1 nodes high, whatever the segments' lens.
C29_BalancedHeight ==
    gh.done.op = "rebalance"
        => height(nd, root[1]) <= log2floor(Len(fillArray(nd, root[1]))) + 1

\* C29 witness: a chain of MaxNodes segments, some empty and some not, has
\* been rebuilt into a tree exactly as high as the bound.
C29_Witness ==
    /\ gh.done.op = "rebalance"
    /\ Len(gh.pre.ids) = MaxNodes
    /\ \E i, j \in 1 .. MaxNodes : gh.pre.lens[i] = 0 /\ gh.pre.lens[j] = MaxLen
    /\ height(nd, root[1]) = log2floor(MaxNodes) + 1


RECURSIVE walk(_, _, _)
\* The nodes stream()'s pull visits from cur on, cur itself left out, until
\* it closes the stream; at most k of them.
walk(N, cur, k) ==
    IF k = 0 THEN <<>>
    ELSE LET next == successor(N, cur)
         IN  IF next = 0 THEN <<>> ELSE <<next>> \o walk(N, next, k - 1)

RECURSIVE clipWalk(_, _, _)
\* The same for replace's clip loop.
clipWalk(N, cur, k) ==
    IF k = 0 THEN <<>>
    ELSE LET next == clipNext(N, cur)
         IN  IF next = 0 THEN <<>> ELSE <<next>> \o clipWalk(N, next, k - 1)

\* C30: whatever the shape of the tree, the successor walk of stream() and
\* of replace() from any node visits the nodes that follow it in fillArray
\* order, each once and in that order, and reports the end of the tree after
\* the last.
C30_SuccessorWalk ==
    LET arr == fillArray(nd, root[1])
    IN  \A i \in 1 .. Len(arr) :
           /\ walk(nd, arr[i], Len(arr)) = SubSeq(arr, i + 1, Len(arr))
           /\ clipWalk(nd, arr[i], Len(arr)) = SubSeq(arr, i + 1, Len(arr))

\* C30 witness: a tree of MaxTreeNodes nodes in which the walk, from a node
\* with no right child that is itself a right child, climbs more than one
\* parent link to its successor.
C30_Witness ==
    /\ Len(fillArray(nd, root[1])) = MaxTreeNodes
    /\ \E n \in treeNodes :
          /\ nd[n].right = 0
          /\ nd[n].parent # 0
          /\ nd[nd[n].parent].right = n
          /\ successor(nd, n) # 0
          /\ walk(nd, n, MaxTreeNodes) # <<>>


\* C31: selectionFilter calls filterThread once for each selected track and
\* for no other, never twice for one; and when it returns, every pipeline
\* it started has completed.
C31_EveryTrackFiltered ==
    /\ \A p \in Pipelines :
          /\ loc.starts[p] <= 1
          /\ p > loc.n => loc.starts[p] = 0
          /\ loc.starts[p] = 1 <=> loc.status[p] # "idle"
    /\ pc = "f_done" =>
          \A p \in 1 .. loc.n : loc.starts[p] = 1 /\ loc.status[p] = "done"

\* C31 witness: selectionFilter has returned with more tracks selected than
\* the budget allows at once, and a budget of two or more.
C31_Witness ==
    /\ pc = "f_done"
    /\ loc.n = MaxTracks
    /\ loc.threads >= 2 /\ loc.threads < loc.n


\* C32: a closeRaw call made on a segment after del() was called on it,
\* with or without modified, returns without awaiting anything and leaves
\* the store as it is: it never gets to wavpack, render or save.
C32_NoWriteAfterDel ==
    [][rs.st # "none" =>
          \A c \in Callers :
              (loc[c].at = "open" /\ loc'[c].at # "open")
                  => (loc'[c].at = "out" /\ store' = store)]_vars

\* C32 witness: del() has returned, every caller has closed what it held,
\* and the segment is still flagged modified with its buffer resident: the
\* holder that would have flushed it closed after del().
C32_Witness ==
    /\ rs.st = "d_done"
    /\ \A c \in Callers : loc[c].at = "out"
    /\ nd[1].rawModified /\ nd[1].hasRaw
    /\ nd[1].readers = Infinity


\* C35: once del() has completed on a segment, the store holds nothing under
\* the segment's id: no metadata, no waveform, no compressed bytes.
C35_DelRemovesAll ==
    \A n \in Ids :
        nd[n].readers = Infinity
            => /\ n \notin store.dataKeys
               /\ n \notin store.waveKeys
               /\ n \notin store.wvKeys


\* The tree load() would build for track t from the store as it is now.
loaded(t) ==
    balanceArray(loadParts(nd, store, store.trackData[t]), store.trackData[t])

\* C33: after an append or a replace has returned, load() of the track from
\* the store builds a tree with the same segment ids, in the same order and
\* with the same lens, as the tree in memory.
C33_LoadRebuilds ==
    (pc = "idle" /\ gh.done.op \in {"append", "replace"})
        => LET t   == gh.done.t
               B   == loaded(t)
               arr == fillArray(nd, root[t])
           IN  /\ t \in store.trackKeys
               /\ fillArray(B.N, B.root) = arr
               /\ lensOf(B.N, arr) = lensOf(nd, arr)

\* C33 witness: a replace that cut inside a segment of a track of three or
\* more segments and put a replacement there has returned.
C33_Witness ==
    /\ pc = "idle" /\ gh.done.op = "replace" /\ gh.done.R # 0
    /\ 0 < gh.done.start /\ gh.done.start < gh.done.end
    /\ gh.done.end < gh.pre.count
    /\ Len(fillArray(nd, root[1])) >= 3
    /\ gh.pre.lens # lensOf(nd, fillArray(nd, root[1]))


\* C34: no openRaw call waits forever: whenever a caller awaits the shared
\* rawPromise, the caller that made the promise is still on its way to
\* resolving it (it awaits the store or the decoder).
C34_OpenersReturn ==
    \A c \in Callers :
        loc[c].at = "wait"
            => \E d \in Callers : /\ loc[d].at \in {"load", "decode"}
                                  /\ loc[d].flight = loc[c].flight


\* C36: after append has returned, no segment reachable from the track's
\* root has len 0, and each has its compressed bytes in the store, whatever
\* the source delivered: nothing, or frames some of which hold no sample.
C36_AppendLeavesNoEmpty ==
    (gh.done.op = "append")
        => LET arr == fillArray(nd, root[gh.done.t])
           IN  \A i \in 1 .. Len(arr) :
                  nd[arr[i]].len # 0 /\ arr[i] \in store.wvKeys


\* C37: replace(a, b, R) with R a track that holds no segment does not
\* throw, and when it has returned the track holds what replace(a, b, null)
\* leaves: what it held, less the samples of [a, b).
C37_EmptyReplacementClips ==
    /\ ~(pc = "error" /\ loc.op = "replace" /\ loc.R # 0 /\ gh.preR.ids = <<>>)
    /\ (gh.done.op = "replace" /\ gh.done.R # 0 /\ gh.preR.ids = <<>>)
          => trackSamples(nd, store, root[1]) =
                 splice(gh.pre.samples, gh.done.start, gh.done.end, <<>>)


\* C38: a frame that stream() has produced for a segment holds samples of
\* that segment only: it is no longer than the segment's len less the
\* offset the frame starts at, also while an append is filling the segment.
C38_FramesWithinLen ==
    rs.st # "none" =>
        \A i \in 1 .. Len(rs.queue) :
            rs.queue[i].hi - rs.queue[i].lo
                <= nd[rs.queue[i].node].len - rs.queue[i].lo


RECURSIVE noRepeat(_)
\* No element occurs twice in the sequence.
noRepeat(arr) ==
    IF arr = <<>> THEN TRUE
    ELSE /\ \A i \in 2 .. Len(arr) : arr[i] # Head(arr)
         /\ noRepeat(Tail(arr))

\* C39: wherever append, replace, load or rebalance is suspended or has
\* completed, every child's parent link points back to its parent, each
\* root's parent is null, and no node is reached by two paths.
C39_LinksAgree ==
    /\ linksConsistent
    /\ \A t \in Tracks : noRepeat(fillArray(nd, root[t]))
    /\ LET arr1 == fillArray(nd, root[1])
           arr2 == fillArray(nd, root[2])
       IN  \A i \in 1 .. Len(arr1) : \A j \in 1 .. Len(arr2) : arr1[i] # arr2[j]

\* C39 witness: replace is suspended in its splice step with one node of the
\* replacement linked in between the start node, which is not the root, and
\* the node the split made.
C39_Witness ==
    /\ pc = "r_insert"
    /\ loc.cur # loc.startNode
    /\ nd[loc.cur].parent = loc.startNode
    /\ nd[loc.cur].right = loc.splitNext
    /\ nd[loc.startNode].parent # 0


\* C40: once playback has started and the stream of every track has ended,
\* playback has stopped by itself: the stopPlayback closure has run and
\* stopPlayback is null again, whatever the tracks of the project.
C40_PlaybackStops ==
    (pc = "p_playing" /\ \A p \in 1 .. loc.n : loc.src[p] \in {"useless", "ended"})
        => loc.stopPlayback = "null" /\ loc.stopped = 1

====
